---------------------------- MODULE Spec2Model ----------------------------
(***************************************************************************)
(* Model of the document content helpers of the wiki:                      *)
(*   server/models/helpers/ProsemirrorHelper.tsx                          *)
(* A document is a tree of nodes [type, attrs, marks, content, text].      *)
(* Strings that the code inspects (URLs) are sequences of tokens, so that  *)
(* startsWith, substring and regular-expression matches are computed.      *)
(***************************************************************************)
EXTENDS Integers, Sequences, FiniteSets, TLC

VARIABLES
    op,        \* the helper that was called last ("none" before any call)
    arg,       \* the caller's argument as it was when the call was made
    argAfter,  \* the caller's argument object as it is after the call
    opts,      \* the other parameters of the call
    result,    \* outcome of the call: [status, value]
    db,        \* stored attachments: set of [id, teamId]
    found,     \* signAttachmentUrls: attachments returned by Attachment.findAll
    pending,   \* signAttachmentUrls: attachments whose getSignedUrl has not settled
    failed,    \* signAttachmentUrls: attachments whose getSignedUrl rejected
    mapping,   \* signAttachmentUrls: sequence of [key, url], in insertion order
    editor,    \* the editor state: [doc, uuids], uuids the ids uuidv4 has given
    task,      \* the queue task that is running: its position and what it holds
    viewer     \* the PdfViewer component: its props, its state, what it renders

vars == <<op, arg, argAfter, opts, result, db, found, pending, failed, mapping,
          editor, task, viewer>>

signVars == <<db, found, pending, failed, mapping>>

----------------------------------------------------------------------------
(* Bounds of the model                                                     *)

MaxRawChildren == 2
MaxLeaves == 3

----------------------------------------------------------------------------
(* Generic helpers                                                         *)

SeqsUpTo(S, n) == UNION {[1..k -> S] : k \in 0..n}

Range(s) == {s[i] : i \in 1..Len(s)}

IsPrefix(p, s) == Len(p) <= Len(s) /\ SubSeq(s, 1, Len(p)) = p

\* A string value is a sequence of tokens; Str(x) is the one-token string x and
\* <<>> the empty string.
Str(x) == <<x>>

\* the JavaScript values null / undefined of an attribute
Null == <<"<null>">>
Undefined == <<"<undefined>">>
\* a JavaScript number where the schema wants a string
Number42 == <<"<number 42>">>

NoAttrs == <<>>

HasAttr(attrs, name) == name \in DOMAIN attrs

\* JavaScript truthiness of node.attrs?.name
Truthy(attrs, name) ==
    /\ HasAttr(attrs, name)
    /\ attrs[name] \notin {Null, Undefined, <<>>}

MkNode(t, a, m, c, x) == [type |-> t, attrs |-> a, marks |-> m, content |-> c, text |-> x]

\* where a node is expected and there is none (null)
NullNode == MkNode("<null>", NoAttrs, <<>>, <<>>, "")

\* no editor is open
NoEditor == [doc |-> NullNode, uuids |-> 0]

\* no queue task is running
NoTask == [kind |-> "none"]

\* no PdfViewer is mounted
NoViewer == [mounted |-> FALSE]

\* outcome of a call
Returned(v) == [status |-> "returned", value |-> v]
Raised == [status |-> "raised", value |-> NullNode]

----------------------------------------------------------------------------
(* Schema registry: the node types toProsemirror constructs against        *)

NodeTypeNames ==
    {"doc", "paragraph", "blockquote", "table", "tr", "text",
     "mention", "attachment", "pdfEmbed"}

MarkTypeNames == {"strong", "em", "link", "comment"}

\* attributes of each node type that have a default, with the default
AttrDefaults(t) ==
    CASE t = "mention" -> [actorId |-> Undefined, id |-> Undefined]
      [] t = "attachment" -> [id |-> Null, href |-> Null, size |-> Str("0"), height |-> Str("500")]
      [] t = "pdfEmbed" -> [attachmentId |-> <<>>]
      [] OTHER -> NoAttrs

\* attributes of each node type that have no default
AttrRequired(t) ==
    CASE t = "mention" -> {"type", "label", "modelId"}
      [] t = "attachment" -> {"title"}
      [] OTHER -> {}

\* attributes with a validate: "string" declaration
AttrValidateString(t) == IF t = "pdfEmbed" THEN {"attachmentId"} ELSE {}

BlockGroup == {"paragraph", "blockquote", "table", "attachment", "pdfEmbed"}
InlineGroup == {"text", "mention"}

\* the child types a node type accepts (its content expression)
AllowedChildren(t) ==
    CASE t = "doc" -> BlockGroup
      [] t = "blockquote" -> BlockGroup
      [] t = "paragraph" -> InlineGroup
      [] t = "table" -> {"tr"}
      [] t = "tr" -> {"paragraph"}
      [] OTHER -> {}

----------------------------------------------------------------------------
(* prosemirror-model: Node.fromJSON(schema, json)                          *)

Ok(n) == [ok |-> TRUE, node |-> n]
Throw == [ok |-> FALSE, node |-> NullNode]

\* computeAttrs: schema attributes only; given value, else default, else throw
computeAttrsThrows(t, given) ==
    \E name \in AttrRequired(t) :
        ~HasAttr(given, name) \/ given[name] = Undefined

computeAttrs(t, given) ==
    LET names == AttrRequired(t) \cup DOMAIN AttrDefaults(t)
    IN  [name \in names |->
            IF HasAttr(given, name) /\ given[name] # Undefined
            THEN given[name]
            ELSE AttrDefaults(t)[name]]

\* NodeType.checkAttrs: the validate declarations
checkAttrsThrows(t, attrs) ==
    \E name \in AttrValidateString(t) : attrs[name] \in {Number42, Null}

\* Mark.fromJSON: an unknown mark type throws
markFromJSONThrows(mark) == mark.type \notin MarkTypeNames

RECURSIVE fromJSON(_)
fromJSON(json) ==
    IF \E i \in 1..Len(json.marks) : markFromJSONThrows(json.marks[i])
    THEN Throw
    ELSE IF json.type = "text"
    THEN (IF json.text = "" THEN Throw
          ELSE Ok(MkNode("text", NoAttrs, json.marks, <<>>, json.text)))
    ELSE LET kids == [i \in 1..Len(json.content) |-> fromJSON(json.content[i])]
         IN  IF \E i \in 1..Len(kids) : ~kids[i].ok
             THEN Throw
             ELSE IF json.type \notin NodeTypeNames
             THEN Throw
             ELSE IF computeAttrsThrows(json.type, json.attrs)
             THEN Throw
             ELSE LET attrs == computeAttrs(json.type, json.attrs)
                  IN  IF checkAttrsThrows(json.type, attrs)
                      THEN Throw
                      ELSE Ok(MkNode(json.type, attrs, json.marks,
                                     [i \in 1..Len(kids) |-> kids[i].node], ""))

\* Node.check(): the content rules that fromJSON does not apply
RECURSIVE ContentValid(_)
ContentValid(node) ==
    \A i \in 1..Len(node.content) :
        /\ node.content[i].type \in AllowedChildren(node.type)
        /\ ContentValid(node.content[i])

\* the JSON of the empty document, { type: "doc", content: [] }
EmptyDocJSON == MkNode("doc", NoAttrs, <<>>, <<>>, "")

EmptyDoc == fromJSON(EmptyDocJSON).node

----------------------------------------------------------------------------
(* server/editor parser.parse(markdown): outcome per Markdown text         *)

MarkdownTexts == {"# Title", "", "<rejected by the tokenizer>", "<no document>"}

parserParse(text) ==
    CASE text = "# Title" ->
            Ok(MkNode("doc", NoAttrs, <<>>,
                <<MkNode("paragraph", NoAttrs, <<>>,
                    <<MkNode("text", NoAttrs, <<>>, <<>>, "Title")>>, "")>>, ""))
      [] text = "" ->
            Ok(MkNode("doc", NoAttrs, <<>>,
                <<MkNode("paragraph", NoAttrs, <<>>, <<>>, "")>>, ""))
      [] text = "<no document>" -> Ok(NullNode)
      [] OTHER -> Throw

----------------------------------------------------------------------------
(* ProsemirrorHelper.toProsemirror                                         *)

\* values the caller can pass as data
StringData(text) == [kind |-> "string", text |-> text, json |-> EmptyDocJSON]
ObjectData(json) == [kind |-> "object", text |-> "", json |-> json]
OtherData(kind) == [kind |-> kind, text |-> "", json |-> EmptyDocJSON]

\* mutant: the construction is not guarded, so its error reaches the caller
toProsemirrorUnguarded(data) ==
    IF data.kind = "string"
    THEN LET parsed == parserParse(data.text)
         IN  IF ~parsed.ok THEN Raised
             ELSE IF parsed.node = NullNode THEN Returned(EmptyDoc)
             ELSE Returned(parsed.node)
    ELSE IF data.kind # "object" \/ data.json.type = ""
    THEN Returned(EmptyDoc)
    ELSE LET built == fromJSON(data.json)
         IN  IF built.ok THEN Returned(built.node) ELSE Raised

toProsemirror(data) ==
    IF data.kind = "string"
    THEN LET parsed == parserParse(data.text)
         IN  IF ~parsed.ok THEN Returned(EmptyDoc)
             ELSE IF parsed.node = NullNode THEN Returned(EmptyDoc)
             ELSE Returned(parsed.node)
    ELSE IF data.kind # "object" \/ data.json.type = ""
    THEN Returned(EmptyDoc)
    ELSE LET built == fromJSON(data.json)
         IN  IF built.ok THEN Returned(built.node) ELSE Returned(EmptyDoc)

----------------------------------------------------------------------------
(* URLs: sequences of tokens                                               *)

Origin == "https://wiki.host"
ExtOrigin == "https://ext.site"
Redirect == "/api/attachments.redirect?id="
DocPath == "/doc/"
IdChars == {"a", "b"}
Origins == {Origin, ExtOrigin}

\* new URL(href): only an absolute URL parses
IsAbsolute(url) == url # <<>> /\ Head(url) \in Origins

\* url.toString().substring(url.origin.length)
RelativePart(url) == Tail(url)

\* the longest run of id characters at the start of s
RECURSIVE IdRun(_)
IdRun(s) ==
    IF s # <<>> /\ Head(s) \in IdChars THEN <<Head(s)>> \o IdRun(Tail(s)) ELSE <<>>

\* [...url.matchAll(attachmentRedirectRegex)].map(match => match.groups?.id)
RECURSIVE matchAllRedirect(_)
matchAllRedirect(url) ==
    IF url = <<>> THEN <<>>
    ELSE IF Head(url) = Redirect /\ IdRun(Tail(url)) # <<>>
    THEN <<IdRun(Tail(url))>>
         \o matchAllRedirect(SubSeq(url, 2 + Len(IdRun(Tail(url))), Len(url)))
    ELSE matchAllRedirect(Tail(url))

\* parseDocumentSlug(href): the slug after /doc/ at the start of the path
NoSlug == <<>>

parseDocumentSlug(url) ==
    LET path == IF IsAbsolute(url) THEN RelativePart(url) ELSE url
    IN  IF Len(path) >= 2 /\ path[1] = DocPath /\ path[2] \notin (IdChars \cup {DocPath, Redirect})
        THEN <<path[2]>>
        ELSE NoSlug

----------------------------------------------------------------------------
(* Document trees                                                          *)

Mark(t, a) == [type |-> t, attrs |-> a]
Link(href) == Mark("link", [href |-> href])
Strong == Mark("strong", NoAttrs)

Text(x, marks) == MkNode("text", NoAttrs, marks, <<>>, x)
Mention(id, t, modelId) ==
    MkNode("mention",
           [type |-> Str(t), label |-> Str("label"), modelId |-> Str(modelId),
            actorId |-> Undefined, id |-> id],
           <<>>, <<>>, "")
Image(src, marks) == MkNode("image", [src |-> src, alt |-> Null], marks, <<>>, "")
Video(src) == MkNode("video", [src |-> src, title |-> Str("clip")], <<>>, <<>>, "")
AttachmentNode(href) ==
    MkNode("attachment",
           [id |-> Null, href |-> href, title |-> Str("a.pdf"), size |-> Str("0"),
            height |-> Str("500")],
           <<>>, <<>>, "")
Paragraph(c) == MkNode("paragraph", NoAttrs, <<>>, c, "")
Blockquote(c) == MkNode("blockquote", NoAttrs, <<>>, c, "")
Doc(c) == MkNode("doc", NoAttrs, <<>>, c, "")

IsBlockLeaf(n) == n.type \in {"attachment"}

\* the subsequence of s whose elements satisfy Keep
RECURSIVE SelectInline(_)
SelectInline(s) ==
    IF s = <<>> THEN <<>>
    ELSE (IF IsBlockLeaf(Head(s)) THEN <<>> ELSE <<Head(s)>>) \o SelectInline(Tail(s))

RECURSIVE SelectBlock(_)
SelectBlock(s) ==
    IF s = <<>> THEN <<>>
    ELSE (IF IsBlockLeaf(Head(s)) THEN <<Head(s)>> ELSE <<>>) \o SelectBlock(Tail(s))

\* blocks holding the leaves ls: the inline ones in a paragraph, then the block ones
Blocks(ls) ==
    (IF SelectInline(ls) = <<>> THEN <<>> ELSE <<Paragraph(SelectInline(ls))>>)
    \o SelectBlock(ls)

\* a document whose first k leaves are at the top level and the rest in a blockquote
DocOf(ls, k) ==
    Doc(Blocks(SubSeq(ls, 1, k))
        \o (IF k = Len(ls) THEN <<>> ELSE <<Blockquote(Blocks(SubSeq(ls, k + 1, Len(ls))))>>))

DocsOf(Leaves) ==
    { DocOf(ls, k) : <<ls, k>> \in
        { <<l, j>> \in SeqsUpTo(Leaves, MaxLeaves) \X (0..MaxLeaves) : j <= Len(l) } }

----------------------------------------------------------------------------
(* prosemirror-model: Node.descendants(f), with the callbacks of the       *)
(* reference extractor                                                     *)

Contains(s, x) == \E i \in 1..Len(s) : s[i] = x

\* lodash uniq: the first occurrence of each element, in order
RECURSIVE uniq(_)
uniq(s) ==
    IF s = <<>> THEN <<>>
    ELSE LET r == uniq(SubSeq(s, 1, Len(s) - 1))
         IN  IF Contains(r, s[Len(s)]) THEN r ELSE Append(r, s[Len(s)])

RECURSIVE flatten(_)
flatten(ss) == IF ss = <<>> THEN <<>> ELSE Head(ss) \o flatten(Tail(ss))

\* the filter of parseMentions; NoFilter stands for an option that is not given
NoFilter == <<>>

\* mutant: an id that was collected before is collected again
isApplicableNodeNoDedup(node, mentions, options) ==
    /\ node.type = "mention"
    /\ ~ \/ (options.type # NoFilter /\ options.type # node.attrs.type)
         \/ (options.modelId # NoFilter /\ options.modelId # node.attrs.modelId)

isApplicableNode(node, mentions, options) ==
    /\ node.type = "mention"
    /\ ~ \/ (options.type # NoFilter /\ options.type # node.attrs.type)
         \/ (options.modelId # NoFilter /\ options.modelId # node.attrs.modelId)
    /\ ~ \E i \in 1..Len(mentions) : mentions[i].id = node.attrs.id

\* the callback parseMentions gives to descendants: [acc, descend]
parseMentionsVisit(node, mentions, options) ==
    IF isApplicableNode(node, mentions, options)
    THEN [acc |-> Append(mentions, node.attrs), descend |-> FALSE]
    ELSE [acc |-> mentions, descend |-> node.content # <<>>]

\* node.marks.forEach of parseDocumentIds
RECURSIVE linkSlugs(_, _)
linkSlugs(marks, identifiers) ==
    IF marks = <<>> THEN identifiers
    ELSE LET mark == Head(marks)
             slug == IF mark.type = "link" THEN parseDocumentSlug(mark.attrs.href) ELSE NoSlug
         IN  linkSlugs(Tail(marks),
                       IF slug # NoSlug /\ ~Contains(identifiers, slug)
                       THEN Append(identifiers, slug)
                       ELSE identifiers)

\* mutant: the marks of every node are read, not only those of text nodes
parseDocumentIdsVisitAnyNode(node, identifiers) ==
    IF /\ node.type = "mention"
       /\ node.attrs.type = Str("document")
       /\ ~Contains(identifiers, node.attrs.modelId)
    THEN [acc |-> Append(identifiers, node.attrs.modelId), descend |-> TRUE]
    ELSE [acc |-> linkSlugs(node.marks, identifiers), descend |-> node.content # <<>>]

\* the callback parseDocumentIds gives to descendants
parseDocumentIdsVisit(node, identifiers) ==
    IF /\ node.type = "mention"
       /\ node.attrs.type = Str("document")
       /\ ~Contains(identifiers, node.attrs.modelId)
    THEN [acc |-> Append(identifiers, node.attrs.modelId), descend |-> TRUE]
    ELSE [acc |-> IF node.type = "text" THEN linkSlugs(node.marks, identifiers)
                  ELSE identifiers,
          descend |-> node.content # <<>>]

\* node.marks.forEach of parseAttachmentIds
RECURSIVE linkHrefs(_)
linkHrefs(marks) ==
    IF marks = <<>> THEN <<>>
    ELSE (IF Head(marks).type = "link" /\ Truthy(Head(marks).attrs, "href")
          THEN <<Head(marks).attrs.href>> ELSE <<>>)
         \o linkHrefs(Tail(marks))

\* the callback parseAttachmentIds gives to descendants (it returns nothing)
parseAttachmentIdsVisit(node, urls) ==
    [acc |-> urls
             \o linkHrefs(node.marks)
             \o (IF node.type \in {"image", "video"} /\ Truthy(node.attrs, "src")
                 THEN <<node.attrs.src>> ELSE <<>>)
             \o (IF node.type = "attachment" /\ Truthy(node.attrs, "href")
                 THEN <<node.attrs.href>> ELSE <<>>),
     descend |-> TRUE]

Visit(cb, node, acc) ==
    CASE cb.name = "parseMentions" -> parseMentionsVisit(node, acc, cb.options)
      [] cb.name = "parseDocumentIds" -> parseDocumentIdsVisit(node, acc)
      [] cb.name = "parseAttachmentIds" -> parseAttachmentIdsVisit(node, acc)

\* nodesBetween over the children: the callback, then the child's own content
\* unless the callback returned false or the child is empty
RECURSIVE nodesBetween(_, _, _)
nodesBetween(children, acc, cb) ==
    IF children = <<>> THEN acc
    ELSE LET child == Head(children)
             r == Visit(cb, child, acc)
             below == IF r.descend /\ child.content # <<>>
                      THEN nodesBetween(child.content, r.acc, cb)
                      ELSE r.acc
         IN  nodesBetween(Tail(children), below, cb)

descendants(node, acc, cb) == nodesBetween(node.content, acc, cb)

----------------------------------------------------------------------------
(* ProsemirrorHelper.parseMentions, parseDocumentIds, parseAttachmentIds   *)

parseMentions(doc, options) ==
    descendants(doc, <<>>, [name |-> "parseMentions", options |-> options])

parseDocumentIds(doc) ==
    descendants(doc, <<>>, [name |-> "parseDocumentIds", options |-> NoFilter])

\* mutant: the ids are not made unique
parseAttachmentIdsNoUniq(doc) ==
    LET urls == descendants(doc, <<>>, [name |-> "parseAttachmentIds", options |-> NoFilter])
    IN  flatten([i \in 1..Len(urls) |-> matchAllRedirect(urls[i])])

parseAttachmentIds(doc) ==
    LET urls == descendants(doc, <<>>, [name |-> "parseAttachmentIds", options |-> NoFilter])
    IN  uniq(flatten([i \in 1..Len(urls) |-> matchAllRedirect(urls[i])]))

----------------------------------------------------------------------------
(* Inputs of toProsemirror: persisted JSON, well formed or not             *)

RawText(x) == MkNode("text", NoAttrs, <<>>, <<>>, x)
RawMention(attrs) == MkNode("mention", attrs, <<>>, <<>>, "")

RawInlines ==
    { RawText("hello"),
      RawText(""),
      MkNode("text", NoAttrs, <<[type |-> "sparkle", attrs |-> NoAttrs]>>, <<>>, "x"),
      RawMention([type |-> Str("user"), label |-> Str("Ann"), modelId |-> Str("u1"),
                  id |-> Str("m1")]),
      RawMention([type |-> Str("user"), label |-> Str("Ann")]) }

RawBlocks ==
    { MkNode("paragraph", NoAttrs, <<>>, <<x>>, "") : x \in RawInlines }
    \cup
    { MkNode("paragraph", NoAttrs, <<>>, <<>>, ""),
      MkNode("table", NoAttrs, <<>>, <<MkNode("paragraph", NoAttrs, <<>>, <<>>, "")>>, ""),
      MkNode("table", NoAttrs, <<>>, <<MkNode("tr", NoAttrs, <<>>, <<>>, "")>>, ""),
      MkNode("attachment", [title |-> Str("a.pdf"), href |-> Str("/files/a.pdf")],
             <<>>, <<>>, ""),
      MkNode("attachment", [href |-> Str("/files/a.pdf")], <<>>, <<>>, ""),
      MkNode("pdfEmbed", [attachmentId |-> Number42], <<>>, <<>>, ""),
      MkNode("pdfEmbed", [attachmentId |-> Str("att-1"), zoom |-> Str("2")], <<>>, <<>>, ""),
      MkNode("widget", NoAttrs, <<>>, <<>>, ""),
      RawText("stray") }

RawTopTypes == {"doc", "paragraph", "blockquote", "widget", ""}

RawObjects ==
    { MkNode(t, NoAttrs, <<>>, c, "") :
        t \in RawTopTypes, c \in SeqsUpTo(RawBlocks, MaxRawChildren) }

DataInputs ==
    { OtherData(k) : k \in {"null", "undefined", "number", "boolean"} }
    \cup { StringData(t) : t \in MarkdownTexts }
    \cup { ObjectData(j) : j \in RawObjects }

----------------------------------------------------------------------------
(* State machine                                                           *)

NoCall == [status |-> "none", value |-> NullNode]
NoOpts == [none |-> TRUE]

InitIdle ==
    /\ op = "none"
    /\ arg = OtherData("undefined")
    /\ argAfter = OtherData("undefined")
    /\ opts = NoOpts
    /\ result = NoCall
    /\ db = {}
    /\ found = {}
    /\ pending = {}
    /\ failed = {}
    /\ mapping = <<>>
    /\ editor = NoEditor
    /\ task = NoTask
    /\ viewer = NoViewer

\* Each behaviour is one call made from the idle state (op = "none").
\* a call of toProsemirror(data); the argument is only read
ToProsemirror ==
    /\ op = "none"
    /\ \E data \in DataInputs :
        /\ op' = "toProsemirror"
        /\ arg' = data
        /\ argAfter' = data
        /\ opts' = NoOpts
        /\ result' = toProsemirror(data)
        /\ UNCHANGED <<signVars, editor, task, viewer>>

NextBuild == ToProsemirror

SpecBuild == InitIdle /\ [][NextBuild]_vars

----------------------------------------------------------------------------
(* The reference extractor: one call on a document tree                    *)

NodeArg(doc) == [kind |-> "node", text |-> "", json |-> doc]

MentionLeaves ==
    { Mention(Str("m1"), "user", "x1"),
      Mention(Str("m1"), "document", "x2"),
      Mention(Str("m2"), "user", "x1"),
      Mention(Str("m2"), "document", "x1"),
      Mention(Undefined, "user", "x2"),
      Text("hi", <<>>) }

MentionFilters ==
    [type : {NoFilter, Str("user"), Str("document")},
     modelId : {NoFilter, Str("x1"), Str("x2")}]

DocumentIdLeaves ==
    { Mention(Str("m1"), "document", "d1"),
      Mention(Str("m2"), "document", "d2"),
      Mention(Str("m3"), "user", "d1"),
      Text("see", <<Link(<<DocPath, "d1">>)>>),
      Text("see", <<Strong, Link(<<Origin, DocPath, "s2">>)>>),
      Text("see", <<Link(<<ExtOrigin, "/page">>), Strong>>),
      Image(<<Origin, "/x.png">>, <<Link(<<DocPath, "s3">>)>>) }

AttachmentLeaves ==
    { Text("file", <<Link(<<Redirect, "a">>)>>),
      Text("file", <<Strong, Link(<<Origin, Redirect, "a", "b">>)>>),
      Text("site", <<Link(<<ExtOrigin, "/page">>)>>),
      Text("both", <<Link(<<ExtOrigin, "/?next=", Redirect, "a", "&alt=", Redirect, "b">>)>>),
      Image(<<Redirect, "b">>, <<>>),
      Image(<<ExtOrigin, "/x.png">>, <<Link(<<Redirect, "a">>)>>),
      Video(<<Origin, Redirect, "b">>),
      AttachmentNode(<<Redirect, "a", "b">>),
      AttachmentNode(Null) }

ParseMentions ==
    /\ op = "none"
    /\ \E doc \in DocsOf(MentionLeaves), options \in MentionFilters :
        /\ op' = "parseMentions"
        /\ arg' = NodeArg(doc)
        /\ argAfter' = NodeArg(doc)
        /\ opts' = options
        /\ result' = Returned(parseMentions(doc, options))
        /\ UNCHANGED <<signVars, editor, task, viewer>>

ParseDocumentIds ==
    /\ op = "none"
    /\ \E doc \in DocsOf(DocumentIdLeaves) :
        /\ op' = "parseDocumentIds"
        /\ arg' = NodeArg(doc)
        /\ argAfter' = NodeArg(doc)
        /\ opts' = NoOpts
        /\ result' = Returned(parseDocumentIds(doc))
        /\ UNCHANGED <<signVars, editor, task, viewer>>

ParseAttachmentIds ==
    /\ op = "none"
    /\ \E doc \in DocsOf(AttachmentLeaves) :
        /\ op' = "parseAttachmentIds"
        /\ arg' = NodeArg(doc)
        /\ argAfter' = NodeArg(doc)
        /\ opts' = NoOpts
        /\ result' = Returned(parseAttachmentIds(doc))
        /\ UNCHANGED <<signVars, editor, task, viewer>>

NextRefs == ParseMentions \/ ParseDocumentIds \/ ParseAttachmentIds

SpecRefs == InitIdle /\ [][NextRefs]_vars

----------------------------------------------------------------------------
(* Node.toJSON and the caller's object                                     *)

\* The object the helpers rewrite in place is
\*   json = "toJSON" in doc ? doc.toJSON() : doc
\* For plain data it is the caller's object. For a Node, toJSON makes new node
\* objects and new marks arrays, and reuses the attrs objects of the Node and
\* of its marks. CallerAfter is the caller's object once json became `after`.
RECURSIVE WithAttrsOf(_, _)
WithAttrsOf(before, after) ==
    [before EXCEPT
        !.attrs = after.attrs,
        !.marks = IF Len(after.marks) = Len(before.marks)
                  THEN [i \in 1..Len(before.marks) |->
                            [before.marks[i] EXCEPT !.attrs = after.marks[i].attrs]]
                  ELSE before.marks,
        !.content = [i \in 1..Len(before.content) |->
                        WithAttrsOf(before.content[i], after.content[i])]]

CallerAfter(kind, before, after) ==
    IF kind = "data" THEN after ELSE WithAttrsOf(before, after)

----------------------------------------------------------------------------
(* ProsemirrorHelper.signAttachmentUrls                                    *)

\* Attachment.redirectUrl and the URL FileStorage.getSignedUrl gives for its key
redirectUrl(attachment) == <<Redirect>> \o attachment.id
SignedHost == "https://signed.store/"
getSignedUrl(attachment) == <<SignedHost>> \o attachment.id

\* Attachment.findAll({ where: { id: attachmentIds, teamId } })
findAll(attachments, attachmentIds, teamId) ==
    { a \in attachments : Contains(attachmentIds, a.id) /\ a.teamId = teamId }

\* mapping[key] = url on an object: a new key goes last
SetMapping(m, key, url) ==
    IF \E i \in 1..Len(m) : m[i].key = key
    THEN [i \in 1..Len(m) |-> IF m[i].key = key THEN [key |-> key, url |-> url] ELSE m[i]]
    ELSE Append(m, [key |-> key, url |-> url])

\* for (const originalUrl of Object.keys(mapping)): the first key that href,
\* or href without its origin, starts with
RECURSIVE getMappingFrom(_, _)
getMappingFrom(href, m) ==
    IF m = <<>> THEN href
    ELSE IF \/ IsPrefix(Head(m).key, href)
            \/ (IsAbsolute(href) /\ IsPrefix(Head(m).key, RelativePart(href)))
    THEN Head(m).url
    ELSE getMappingFrom(href, Tail(m))

getMapping(href, m) == getMappingFrom(href, m)

replaceMarkHrefs(marks, m) ==
    [i \in 1..Len(marks) |->
        IF Truthy(marks[i].attrs, "href")
        THEN [marks[i] EXCEPT !.attrs.href = getMapping(marks[i].attrs.href, m)]
        ELSE marks[i]]

RECURSIVE replaceAttachmentUrls(_, _)
replaceAttachmentUrls(node, m) ==
    LET own ==
            IF Truthy(node.attrs, "src")
            THEN [node EXCEPT !.attrs.src = getMapping(node.attrs.src, m)]
            ELSE IF Truthy(node.attrs, "href")
            THEN [node EXCEPT !.attrs.href = getMapping(node.attrs.href, m)]
            ELSE [node EXCEPT !.marks = replaceMarkHrefs(node.marks, m)]
    IN  [own EXCEPT !.content =
            [i \in 1..Len(node.content) |-> replaceAttachmentUrls(node.content[i], m)]]

Teams == {"t1", "t2"}
AttachmentIds == { <<"a">>, <<"b">>, <<"a", "b">> }

\* the stored attachments: an id is stored once
Databases ==
    { S \in SUBSET [id : AttachmentIds, teamId : Teams] :
        \A x, y \in S : x.id = y.id => x = y }

SignLeaves ==
    { Text("file", <<Link(<<Redirect, "a">>)>>),
      Text("site", <<Link(<<ExtOrigin, "/page">>)>>),
      Image(<<Origin, Redirect, "b">>, <<>>),
      Image(<<ExtOrigin, "/x.png">>, <<Link(<<Redirect, "a">>)>>),
      AttachmentNode(<<Redirect, "a", "b">>) }

Pending == [status |-> "pending", value |-> NullNode]

InitSign ==
    /\ op = "none"
    /\ arg = OtherData("undefined")
    /\ argAfter = OtherData("undefined")
    /\ opts = NoOpts
    /\ result = NoCall
    /\ db \in Databases
    /\ found = {}
    /\ pending = {}
    /\ failed = {}
    /\ mapping = <<>>
    /\ editor = NoEditor
    /\ task = NoTask
    /\ viewer = NoViewer

\* the call up to Promise.all: the ids are parsed, the team's attachments are
\* found and one getSignedUrl is started for each
SignAttachmentUrls ==
    /\ op = "none"
    /\ \E doc \in DocsOf(SignLeaves), teamId \in Teams :
        /\ op' = "signAttachmentUrls"
        /\ arg' = NodeArg(doc)
        /\ argAfter' = NodeArg(doc)
        /\ opts' = [teamId |-> teamId]
        /\ found' = findAll(db, parseAttachmentIds(doc), teamId)
        /\ pending' = found'
        /\ failed' = {}
        /\ mapping' = <<>>
        /\ result' = Pending
        /\ UNCHANGED <<db, editor, task, viewer>>

\* FileStorage.getSignedUrl resolves for one attachment: its entry is written
GetSignedUrlResolves ==
    /\ op = "signAttachmentUrls"
    /\ \E a \in pending :
        /\ pending' = pending \ {a}
        /\ mapping' = SetMapping(mapping, redirectUrl(a), getSignedUrl(a))
        /\ UNCHANGED <<op, arg, argAfter, opts, result, db, found, failed, editor, task, viewer>>

\* FileStorage.getSignedUrl rejects for one attachment: Promise.all rejects and
\* the await throws out of signAttachmentUrls
GetSignedUrlRejects ==
    /\ op = "signAttachmentUrls"
    /\ \E a \in pending :
        /\ pending' = pending \ {a}
        /\ failed' = failed \cup {a}
        /\ result' = IF result.status = "pending" THEN Raised ELSE result
        /\ UNCHANGED <<op, arg, argAfter, opts, db, found, mapping, editor, task, viewer>>

\* Promise.all resolved: doc.toJSON() and replaceAttachmentUrls(json) in place.
\* toJSON makes new node objects but hands out the attrs objects of the Node and
\* of its marks, so the rewritten attrs are those of the caller's Node too.
SignReturns ==
    /\ op = "signAttachmentUrls"
    /\ result.status = "pending"
    /\ pending = {}
    /\ result' = Returned(replaceAttachmentUrls(arg.json, mapping))
    /\ argAfter' = NodeArg(CallerAfter("node", arg.json,
                                       replaceAttachmentUrls(arg.json, mapping)))
    /\ UNCHANGED <<op, arg, opts, db, found, pending, failed, mapping, editor, task, viewer>>

NextSign ==
    \/ SignAttachmentUrls
    \/ GetSignedUrlResolves
    \/ GetSignedUrlRejects
    \/ SignReturns

SpecSign == InitSign /\ [][NextSign]_vars

----------------------------------------------------------------------------
(* ProsemirrorHelper.removeMarks and replaceInternalUrls                   *)

DataArg(json) == [kind |-> "data", text |-> "", json |-> json]

\* typeof value === "string"
IsString(value) == value \notin {Null, Undefined, Number42}

\* isInternalUrl(href): a path of this site, or a URL on this site's host
isInternalUrl(url) == url # <<>> /\ (Head(url) = Origin \/ Head(url) \notin Origins)

\* basePath.endsWith("/")
EndsWithSlash(basePath) ==
    basePath # <<>> /\ basePath[Len(basePath)] \in {"/", DocPath}

\* url.replace("/doc/", basePath + "/doc/"): the first occurrence only
RECURSIVE replaceUrl(_, _)
replaceUrl(url, basePath) ==
    IF url = <<>> THEN <<>>
    ELSE IF Head(url) = DocPath THEN basePath \o url
    ELSE <<Head(url)>> \o replaceUrl(Tail(url), basePath)

RECURSIVE removeMarksInner(_, _)
removeMarksInner(node, marks) ==
    [node EXCEPT
        !.marks = SelectSeq(node.marks, LAMBDA mark : ~Contains(marks, mark.type)),
        !.content = [i \in 1..Len(node.content) |-> removeMarksInner(node.content[i], marks)]]

RECURSIVE replaceInternalUrlsInner(_, _)
replaceInternalUrlsInner(node, basePath) ==
    LET own ==
            IF HasAttr(node.attrs, "href") /\ IsString(node.attrs.href)
            THEN [node EXCEPT !.attrs.href = replaceUrl(node.attrs.href, basePath)]
            ELSE [node EXCEPT !.marks =
                    [i \in 1..Len(node.marks) |->
                        IF /\ HasAttr(node.marks[i].attrs, "href")
                           /\ IsString(node.marks[i].attrs.href)
                           /\ isInternalUrl(node.marks[i].attrs.href)
                        THEN [node.marks[i] EXCEPT
                                !.attrs.href = replaceUrl(node.marks[i].attrs.href, basePath)]
                        ELSE node.marks[i]]]
    IN  [own EXCEPT !.content =
            [i \in 1..Len(node.content) |->
                replaceInternalUrlsInner(node.content[i], basePath)]]

\* a variant of removeMarks that filters the marks of the top node only
removeMarksTopOnly(doc, marks) ==
    [doc EXCEPT !.marks = SelectSeq(doc.marks, LAMBDA mark : ~Contains(marks, mark.type))]

removeMarks(doc, marks) == removeMarksInner(doc, marks)

\* a variant of replaceInternalUrls without the check of basePath
replaceInternalUrlsUnchecked(doc, basePath) ==
    Returned(replaceInternalUrlsInner(doc, basePath))

replaceInternalUrls(doc, basePath) ==
    IF EndsWithSlash(basePath) THEN Raised
    ELSE Returned(replaceInternalUrlsInner(doc, basePath))

RewriteLeaves ==
    { Text("bold", <<Strong>>),
      Text("doc", <<Strong, Link(<<DocPath, "s1">>)>>),
      Text("doc", <<Link(<<Origin, DocPath, "s1">>), Mark("comment", [id |-> Str("c1")])>>),
      Text("site", <<Link(<<ExtOrigin, DocPath, "s1">>)>>),
      AttachmentNode(<<ExtOrigin, "/files", DocPath, "a.pdf">>),
      Image(<<Origin, "/x.png">>, <<Link(<<DocPath, "s1">>)>>) }

MarkLists == { <<>>, <<"strong">>, <<"link">>, <<"strong", "comment">> }

BasePaths == { <<>>, <<"/s/share-1">>, <<"/s/share-1", "/">>, <<"/">> }

ArgKinds == {"node", "data"}

RemoveMarks ==
    /\ op = "none"
    /\ \E doc \in DocsOf(RewriteLeaves), marks \in MarkLists, kind \in ArgKinds :
        /\ op' = "removeMarks"
        /\ arg' = [kind |-> kind, text |-> "", json |-> doc]
        /\ opts' = [marks |-> marks]
        /\ result' = Returned(removeMarks(doc, marks))
        /\ argAfter' = [kind |-> kind, text |-> "",
                        json |-> CallerAfter(kind, doc, removeMarks(doc, marks))]
        /\ UNCHANGED <<signVars, editor, task, viewer>>

ReplaceInternalUrls ==
    /\ op = "none"
    /\ \E doc \in DocsOf(RewriteLeaves), basePath \in BasePaths, kind \in ArgKinds :
        /\ op' = "replaceInternalUrls"
        /\ arg' = [kind |-> kind, text |-> "", json |-> doc]
        /\ opts' = [basePath |-> basePath]
        /\ result' = replaceInternalUrls(doc, basePath)
        /\ argAfter' = [kind |-> kind, text |-> "",
                        json |-> IF replaceInternalUrls(doc, basePath).status = "returned"
                                 THEN CallerAfter(kind, doc,
                                                  replaceInternalUrls(doc, basePath).value)
                                 ELSE doc]
        /\ UNCHANGED <<signVars, editor, task, viewer>>

NextRewrite == RemoveMarks \/ ReplaceInternalUrls

SpecRewrite == InitIdle /\ [][NextRewrite]_vars

----------------------------------------------------------------------------
(* ProsemirrorHelper.toPdfHtml: the DOM it builds                          *)

\* An element of the output DOM. class is the set of class names, language the
\* data-language attribute, url the href or src attribute, html the markup of
\* the element's own text (what serialize() writes for it), children the child
\* elements.
El(tag, class, language, url, html, children) ==
    [tag |-> tag, class |-> class, language |-> language, url |-> url,
     html |-> html, children |-> children]

ScriptReady == "window.status = \"ready\";"
ScriptMermaid ==
    "try { await import(mermaid).then(run) } catch (e) { } finally { window.status = \"ready\"; }"

\* text of a code block that is itself markup
ScriptMarkup == "<script>window.status = \"ready\";</script>"
EscapedScriptMarkup == "&lt;script&gt;window.status = \"ready\";&lt;/script&gt;"

\* what serialize() writes for a text set through textContent / createTextNode
escapeHtml(text) == IF text = ScriptMarkup THEN EscapedScriptMarkup ELSE text

\* katex.renderToString(tex, {throwOnError: false, output: "html"})
katexRenderToString(tex) == "<span class=\"katex\">" \o escapeHtml(tex) \o "</span>"

\* hljs.getLanguage(language)
hljsGetLanguage(language) == language \in {"javascript", "plaintext"}

\* hljs.highlight(code, {language, ignoreIllegals: true}).value
hljsHighlight(code, language) ==
    IF language = "javascript" /\ code = "let x = 1;"
    THEN "<span class=\"hljs-keyword\">let</span> x = <span class=\"hljs-number\">1</span>;"
    ELSE escapeHtml(code)

\* hljs.highlightAuto(code).value
hljsHighlightAuto(code) == escapeHtml(code)

CodeBlock(language, code) ==
    MkNode("code_block", [language |-> language], <<>>,
           IF code = "" THEN <<>> ELSE <<Text(code, <<>>)>>, "")
MathBlock(tex) == MkNode("math_block", NoAttrs, <<>>, <<Text(tex, <<>>)>>, "")
Embed(href) == MkNode("embed", [href |-> href], <<>>, <<>>, "")

\* node.isBlock
isBlock(node) == node.type \notin (InlineGroup \cup {"image", "math_inline"})

\* node.textContent
RECURSIVE textContent(_)
RECURSIVE textBetween(_)
textContent(node) ==
    IF node.type = "text" THEN node.text ELSE textBetween(node.content)
textBetween(content) ==
    IF content = <<>> THEN ""
    ELSE textContent(Head(content)) \o textBetween(Tail(content))

\* the characters of a URL
RECURSIVE UrlString(_)
UrlString(url) == IF url = <<>> THEN "" ELSE Head(url) \o UrlString(Tail(url))

TextEl(text) == El("#text", {}, "", <<>>, escapeHtml(text), <<>>)

\* the toDOM of the marks of an inline node, outermost first
RECURSIVE wrapMarks(_, _)
wrapMarks(marks, el) ==
    IF marks = <<>> THEN el
    ELSE IF Head(marks).type = "link"
    THEN El("a", {}, "", Head(marks).attrs.href, "", <<wrapMarks(Tail(marks), el)>>)
    ELSE El(Head(marks).type, {}, "", <<>>, "", <<wrapMarks(Tail(marks), el)>>)

\* DOMSerializer.fromSchema(schema): the toDOM of each node type
RECURSIVE serializeNodeInner(_)
serializeFragment(fragment) ==
    [i \in 1..Len(fragment) |-> serializeNodeInner(fragment[i])]
serializeNodeInner(node) ==
    LET children == [i \in 1..Len(node.content) |-> serializeNodeInner(node.content[i])]
        dom ==
            CASE node.type = "text" -> TextEl(node.text)
              [] node.type = "paragraph" -> El("p", {}, "", <<>>, "", children)
              [] node.type = "blockquote" -> El("blockquote", {}, "", <<>>, "", children)
              [] node.type = "code_block" ->
                    El("div", {"code-block"}, UrlString(node.attrs.language), <<>>, "",
                       <<El("pre", {}, "", <<>>, "",
                            <<El("code", {}, "", <<>>, "", children)>>)>>)
              [] node.type = "math_block" -> El("math-block", {"math-node"}, "", <<>>, "", children)
              [] node.type = "image" -> El("img", {}, "", node.attrs.src, "", <<>>)
              [] node.type = "embed" -> El("a", {"embed"}, "", node.attrs.href, "", <<>>)
              [] OTHER -> El(node.type, {}, "", <<>>, "", children)
    IN  wrapMarks(node.marks, dom)

\* nodeToSerialize.attrs.language || "plaintext"
LanguageOf(node) ==
    IF Truthy(node.attrs, "language") THEN UrlString(node.attrs.language) ELSE "plaintext"

\* serializeNode(nodeToSerialize, target): the elements appended to target.
\* throws: the renderer this node goes through (katex, hljs, DOMSerializer)
\* raises an exception.
serializeNode(node, throws) ==
    IF node.type \in {"math_inline", "math_block"}
    THEN IF throws
         THEN <<El(IF node.type = "math_block" THEN "div" ELSE "span",
                   {"math-error", node.type}, "", <<>>,
                   escapeHtml(textContent(node)), <<>>)>>
         ELSE <<El(IF node.type = "math_block" THEN "div" ELSE "span",
                   {"math", IF node.type = "math_block" THEN "math-block" ELSE "math-inline"},
                   "", <<>>, katexRenderToString(textContent(node)), <<>>)>>
    ELSE IF node.type = "code_block"
    THEN LET language == LanguageOf(node)
             code == textContent(node)
             highlightedCode ==
                 IF language = "mermaidjs" THEN code
                 ELSE IF throws THEN code
                 ELSE IF hljsGetLanguage(language) THEN hljsHighlight(code, language)
                 ELSE hljsHighlightAuto(code)
         IN  <<El("div", {"code-block", "language-" \o language}, language, <<>>, "",
                  <<El("pre", {}, "", <<>>, "",
                       <<El("code", {}, "", <<>>, highlightedCode, <<>>)>>)>>)>>
    ELSE IF node.type = "embed"
    THEN LET href == IF Truthy(node.attrs, "href") THEN node.attrs.href ELSE <<"#">>
         IN  <<El("div", {"embed-placeholder"}, "", <<>>, "",
                  <<El("a", {}, "", href,
                       escapeHtml("[Embed: " \o UrlString(href) \o "]"), <<>>)>>)>>
    ELSE IF node.type = "text"
    THEN <<TextEl(node.text)>>
    ELSE IF throws
    THEN IF textContent(node) # "" THEN <<TextEl(textContent(node))>> ELSE <<>>
    ELSE serializeFragment(IF isBlock(node) THEN node.content ELSE <<node>>)

\* a variant of serializeChildren that stops at the child whose renderer throws
RECURSIVE serializeChildrenAborting(_, _, _)
serializeChildrenAborting(content, i, failAt) ==
    IF i > Len(content) \/ i = failAt THEN <<>>
    ELSE serializeNode(content[i], FALSE) \o serializeChildrenAborting(content, i + 1, failAt)

\* node.content.forEach((childNode) => serializeNode(childNode, target));
\* the renderer of child number failAt throws (0: none does)
RECURSIVE serializeChildren(_, _, _)
serializeChildren(content, i, failAt) ==
    IF i > Len(content) THEN <<>>
    ELSE serializeNode(content[i], i = failAt) \o serializeChildren(content, i + 1, failAt)

\* el.href / el.src read back from the DOM of a document at about:blank
ElementUrl(url) == IF url = <<"#">> THEN <<"about:blank#">> ELSE url

\* currentUrlValue.startsWith("/")
StartsWithSlash(url) == url # <<>> /\ Head(url) \in {DocPath, Redirect, "/files", "/video"}

\* currentUrlValue.substring(currentUrlValue.indexOf("/api/"))
RECURSIVE FromApi(_)
FromApi(url) ==
    IF url = <<>> \/ Head(url) = Redirect THEN url ELSE FromApi(Tail(url))

\* new URL(path, options.baseUrl).toString()
AbsoluteUrl(path, baseUrl) == baseUrl \o path

\* the loop over a[href], img[src], video[src], audio[src]
RECURSIVE absolutize(_, _)
absolutize(el, baseUrl) ==
    LET current == ElementUrl(el.url)
        own ==
            IF /\ el.tag \in {"a", "img", "video", "audio"}
               /\ el.url # <<>>
               /\ (StartsWithSlash(current) \/ Redirect \in Range(current))
            THEN [el EXCEPT !.url =
                    AbsoluteUrl(IF StartsWithSlash(current) THEN current ELSE FromApi(current),
                                baseUrl)]
            ELSE el
    IN  [own EXCEPT !.children =
            [i \in 1..Len(el.children) |-> absolutize(el.children[i], baseUrl)]]

\* el matches `[data-language="mermaidjs"] code`, seen from its div
IsMermaidDiv(el) ==
    /\ el.language = "mermaidjs"
    /\ Len(el.children) = 1
    /\ el.children[1].tag = "pre"
    /\ Len(el.children[1].children) = 1
    /\ el.children[1].children[1].tag = "code"

\* el.innerHTML of a code element
RECURSIVE innerHTML(_)
RECURSIVE outerHTML(_)
innerHTML(el) ==
    IF el.children = <<>> THEN el.html
    ELSE el.html \o outerHTML(Head(el.children))
         \o innerHTML([el EXCEPT !.html = "", !.children = Tail(el.children)])
outerHTML(el) ==
    IF el.tag = "#text" THEN el.html
    ELSE "<" \o el.tag \o ">" \o innerHTML(el) \o "</" \o el.tag \o ">"

\* doc.querySelectorAll(`[data-language="mermaidjs"] code`).length > 0
RECURSIVE HasMermaid(_)
HasMermaid(el) ==
    IsMermaidDiv(el) \/ \E i \in 1..Len(el.children) : HasMermaid(el.children[i])

\* mermaidElements.forEach: the code moves into the div, which becomes .mermaid
RECURSIVE unwrapMermaid(_)
unwrapMermaid(el) ==
    IF IsMermaidDiv(el)
    THEN [el EXCEPT
            !.html = innerHTML(el.children[1].children[1]),
            !.children = <<>>,
            !.class = (el.class \cup {"mermaid"}) \ {"code-block", "language-mermaidjs"}]
    ELSE [el EXCEPT !.children =
            [i \in 1..Len(el.children) |-> unwrapMermaid(el.children[i])]]

\* dom.serialize(): whether the style shell (and with it #content) is there,
\* the elements under #content, the script elements appended to the body
Html(shell, content, scripts) == [shell |-> shell, content |-> content, scripts |-> scripts]

Script(type, html) == [type |-> type, html |-> html]

\* options: includeMermaid, and baseUrl (<<>> when absent).
\* shellRenders: renderToString of the style shell succeeds.
toPdfHtml(node, options, shellRenders, failAt) ==
    IF ~shellRenders
    THEN Html(FALSE, <<>>, <<>>)
    ELSE LET serialized == serializeChildren(node.content, 1, failAt)
             absolute ==
                 IF options.baseUrl # <<>>
                 THEN [i \in 1..Len(serialized) |-> absolutize(serialized[i], options.baseUrl)]
                 ELSE serialized
             mermaid ==
                 options.includeMermaid /\ \E i \in 1..Len(absolute) : HasMermaid(absolute[i])
         IN  IF mermaid
             THEN Html(TRUE,
                       [i \in 1..Len(absolute) |-> unwrapMermaid(absolute[i])],
                       <<Script("module", ScriptMermaid)>>)
             ELSE Html(TRUE, absolute, <<Script("", ScriptReady)>>)

----------------------------------------------------------------------------
(* ProsemirrorHelper.toHTML: the DOM it builds                             *)

\* the module script toHTML injects when the document has mermaid diagrams
ScriptMermaidImport ==
    "import mermaid from cdn; mermaid.initialize({ startOnLoad: true }); window.status = \"ready\";"

\* the loop over a[href], img[src], video[src], audio[src], iframe[src],
\* script[src]
RECURSIVE absolutizeAll(_, _)
absolutizeAll(el, baseUrl) ==
    LET current == ElementUrl(el.url)
        own ==
            IF /\ el.tag \in {"a", "img", "video", "audio", "iframe", "script"}
               /\ el.url # <<>>
               /\ (StartsWithSlash(current) \/ Redirect \in Range(current))
            THEN [el EXCEPT !.url =
                    AbsoluteUrl(IF StartsWithSlash(current) THEN current ELSE FromApi(current),
                                baseUrl)]
            ELSE el
    IN  [own EXCEPT !.children =
            [i \in 1..Len(el.children) |-> absolutizeAll(el.children[i], baseUrl)]]

\* for each `[data-language="mermaidjs"] pre code`: the children of the code
\* element move into the pre, the code element is removed, the pre gets the
\* class mermaid
RECURSIVE unwrapPreCode(_)
unwrapPreCode(el) ==
    IF IsMermaidDiv(el)
    THEN LET pre == el.children[1]
             code == pre.children[1]
         IN  [el EXCEPT !.children =
                <<[pre EXCEPT !.class = {"mermaid"}, !.html = code.html,
                              !.children = code.children]>>]
    ELSE [el EXCEPT !.children =
            [i \in 1..Len(el.children) |-> unwrapPreCode(el.children[i])]]

\* options: includeMermaid, and baseUrl (<<>> when absent).
\* shellRenders: renderToString of the style shell succeeds, so that the
\* document has the #content element.
toHTML(node, options, shellRenders) ==
    LET serialized == IF shellRenders THEN serializeFragment(node.content) ELSE <<>>
        absolute ==
            IF options.baseUrl # <<>>
            THEN [i \in 1..Len(serialized) |-> absolutizeAll(serialized[i], options.baseUrl)]
            ELSE serialized
        mermaid == \E i \in 1..Len(absolute) : HasMermaid(absolute[i])
    IN  IF options.includeMermaid
        THEN Html(shellRenders,
                  [i \in 1..Len(absolute) |-> unwrapPreCode(absolute[i])],
                  <<Script("module", IF mermaid THEN ScriptMermaidImport ELSE ScriptReady)>>)
        ELSE Html(shellRenders, absolute, <<>>)

MathInline(tex) == MkNode("math_inline", NoAttrs, <<>>, <<Text(tex, <<>>)>>, "")

MaxPdfBlocks == 2

PdfBlocks ==
    { Paragraph(<<Text("hi", <<Link(<<DocPath, "s1">>)>>),
                  Image(<<ExtOrigin, Redirect, "a">>, <<>>)>>),
      CodeBlock(Str("mermaidjs"), "graph TD"),
      CodeBlock(Str("mermaidjs"), ScriptMarkup),
      CodeBlock(Str("javascript"), "let x = 1;"),
      CodeBlock(Null, ScriptMarkup),
      CodeBlock(Str("madeup"), "let x = 1;"),
      MathBlock("x^2"),
      Embed(<<ExtOrigin, "/video">>),
      Embed(Null),
      Blockquote(<<CodeBlock(Str("mermaidjs"), "graph TD")>>),
      Paragraph(<<Text("area", <<>>), MathInline("x^2")>>) }

PdfDocs == { Doc(blocks) : blocks \in SeqsUpTo(PdfBlocks, MaxPdfBlocks) }

BaseUrls == { <<>>, <<Origin>> }

\* what a call met: whether the style shell rendered, and the top-level child
\* whose renderer threw (0: none)
PdfCall(includeMermaid, baseUrl, shellRenders, failAt) ==
    [includeMermaid |-> includeMermaid, baseUrl |-> baseUrl,
     shellRenders |-> shellRenders, failAt |-> failAt]

\* a call of toPdfHtml(node, options); the node is only read
ToPdfHtml ==
    /\ op = "none"
    /\ \E doc \in PdfDocs, includeMermaid \in BOOLEAN, baseUrl \in BaseUrls,
          shellRenders \in BOOLEAN, failAt \in 0..MaxPdfBlocks :
        /\ op' = "toPdfHtml"
        /\ arg' = NodeArg(doc)
        /\ argAfter' = NodeArg(doc)
        /\ opts' = PdfCall(includeMermaid, baseUrl, shellRenders, failAt)
        /\ result' = Returned(toPdfHtml(doc, [includeMermaid |-> includeMermaid,
                                              baseUrl |-> baseUrl],
                                        shellRenders, failAt))
        /\ UNCHANGED <<signVars, editor, task, viewer>>

\* a call of toHTML(node, options); the node is only read
ToHTML ==
    /\ op = "none"
    /\ \E doc \in PdfDocs, includeMermaid \in BOOLEAN, baseUrl \in BaseUrls,
          shellRenders \in BOOLEAN :
        /\ op' = "toHTML"
        /\ arg' = NodeArg(doc)
        /\ argAfter' = NodeArg(doc)
        /\ opts' = PdfCall(includeMermaid, baseUrl, shellRenders, 0)
        /\ result' = Returned(toHTML(doc, [includeMermaid |-> includeMermaid,
                                           baseUrl |-> baseUrl],
                                     shellRenders))
        /\ UNCHANGED <<signVars, editor, task, viewer>>

NextPdf == ToPdfHtml \/ ToHTML

SpecPdf == InitIdle /\ [][NextPdf]_vars

----------------------------------------------------------------------------
(* Mention (shared/editor/nodes): the plugin that keeps mention ids unique  *)

MaxUuids == 2

\* uuidv4(): the n-th id it gives, different from every id given or stored before
Uuid(n) == Str("uuid-" \o ToString(n))

\* node.attrs.id
NodeId(node) == IF HasAttr(node.attrs, "id") THEN node.attrs.id ELSE Undefined

\* a variant of needsNewId that does not look at the ids seen before
needsNewIdWhenMissing(node, existingIds) ==
    /\ node.type = "mention"
    /\ NodeId(node) \in {Null, Undefined, <<>>}

\* a variant of needsNewId that gives every mention a new id
needsNewIdAlways(node, existingIds) == node.type = "mention"

\* node.type.name === this.name && (!nodeId || existingIds.has(nodeId))
needsNewId(node, existingIds) ==
    /\ node.type = "mention"
    /\ (NodeId(node) \in {Null, Undefined, <<>>} \/ NodeId(node) \in existingIds)

\* tr.doc.descendants((node, pos) => ...): the nodes in document order, each
\* followed by its own content; tr.setNodeAttribute(pos, "id", nodeId) on the
\* mentions that need an id, existingIds.add(nodeId) for every node
RECURSIVE repairDescendants(_, _, _)
repairDescendants(children, existingIds, uuids) ==
    IF children = <<>>
    THEN [content |-> <<>>, existingIds |-> existingIds, uuids |-> uuids]
    ELSE LET node == Head(children)
             modified == needsNewId(node, existingIds)
             nodeId == IF modified THEN Uuid(uuids + 1) ELSE NodeId(node)
             own == IF modified THEN [node EXCEPT !.attrs.id = nodeId] ELSE node
             below == repairDescendants(node.content, existingIds \cup {nodeId},
                                        IF modified THEN uuids + 1 ELSE uuids)
             rest == repairDescendants(Tail(children), below.existingIds, below.uuids)
         IN  [content |-> <<[own EXCEPT !.content = below.content]>> \o rest.content,
              existingIds |-> rest.existingIds,
              uuids |-> rest.uuids]

\* appendTransaction(_transactions, _oldState, newState), applied to newState
appendTransaction(state) ==
    LET r == repairDescendants(state.doc.content, {}, state.uuids)
    IN  [doc |-> [state.doc EXCEPT !.content = r.content], uuids |-> r.uuids]

\* the nodes a loaded or edited document holds
EditorLeaves ==
    { Mention(Undefined, "user", "u1"),
      Mention(Str("m1"), "user", "u1"),
      [AttachmentNode(<<Redirect, "a">>) EXCEPT !.attrs.id = Str("m1")] }

\* the mentions a transaction inserts: created by the command (no id yet) or
\* pasted with the id of a mention of the document
InsertedMentions ==
    { Mention(Undefined, "user", "u1"),
      Mention(<<>>, "document", "d1") }

\* the mention nodes of a document, in document order
RECURSIVE EditorMentionsIn(_)
EditorMentionsIn(children) ==
    IF children = <<>> THEN <<>>
    ELSE (IF Head(children).type = "mention" THEN <<Head(children)>> ELSE <<>>)
         \o EditorMentionsIn(Head(children).content)
         \o EditorMentionsIn(Tail(children))

EditorMentionsOf(doc) == EditorMentionsIn(doc.content)

\* the document has a paragraph to edit at its start
HasFirstParagraph(doc) == doc.content # <<>> /\ Head(doc.content).type = "paragraph"

\* state.tr.insert(position, node), position i in the first paragraph
insertAt(doc, i, node) ==
    LET p == Head(doc.content)
    IN  [doc EXCEPT !.content =
            <<[p EXCEPT !.content = SubSeq(p.content, 1, i) \o <<node>>
                                    \o SubSeq(p.content, i + 1, Len(p.content))]>>
            \o Tail(doc.content)]

\* tr.delete of the i-th node of the first paragraph
deleteAt(doc, i) ==
    LET p == Head(doc.content)
    IN  [doc EXCEPT !.content =
            <<[p EXCEPT !.content = SubSeq(p.content, 1, i - 1)
                                    \o SubSeq(p.content, i + 1, Len(p.content))]>>
            \o Tail(doc.content)]

\* an editor opened on a stored document; nothing has repaired it yet
InitEditor ==
    /\ op = "none"
    /\ arg = OtherData("undefined")
    /\ argAfter = OtherData("undefined")
    /\ opts = NoOpts
    /\ result = NoCall
    /\ db = {}
    /\ found = {}
    /\ pending = {}
    /\ failed = {}
    /\ mapping = <<>>
    /\ editor \in { [doc |-> d, uuids |-> 0] : d \in DocsOf(EditorLeaves) }
    /\ task = NoTask
    /\ viewer = NoViewer

\* view.dispatch(tr): the transaction is applied, then the plugin's
\* appendTransaction runs on the new state, whose document is kept in arg
Dispatched(kind, doc) ==
    /\ appendTransaction([doc |-> doc, uuids |-> editor.uuids]).uuids <= MaxUuids
    /\ editor' = appendTransaction([doc |-> doc, uuids |-> editor.uuids])
    /\ op' = kind
    /\ arg' = NodeArg(doc)
    /\ UNCHANGED <<argAfter, opts, result, signVars, task, viewer>>

\* the mention command or a paste inserts a mention
InsertMention ==
    /\ HasFirstParagraph(editor.doc)
    /\ Len(Head(editor.doc.content).content) < MaxLeaves
    /\ \E i \in 0..Len(Head(editor.doc.content).content),
          node \in InsertedMentions \cup Range(EditorMentionsOf(editor.doc)) :
          Dispatched("insertMention", insertAt(editor.doc, i, node))

\* a node of the first paragraph is deleted
DeleteNode ==
    /\ HasFirstParagraph(editor.doc)
    /\ \E i \in 1..Len(Head(editor.doc.content).content) :
          Dispatched("deleteNode", deleteAt(editor.doc, i))

\* a transaction that leaves the document as it is (selection, focus)
SetSelection == Dispatched("setSelection", editor.doc)

NextMention == InsertMention \/ DeleteNode \/ SetSelection

SpecMention == InitEditor /\ [][NextMention]_vars

----------------------------------------------------------------------------
(* Markdown of the attachment, mention and pdfEmbed nodes                  *)
(* A text is a sequence of tokens; " " is a token of its own.               *)

\* a JavaScript number, as distinct from the string of its digits
Num(digits) == <<"<number>", digits>>

\* `${value}` in a template literal
TemplateText(value) ==
    IF value = Undefined THEN <<"undefined">>
    ELSE IF value = Null THEN <<"null">>
    ELSE IF value # <<>> /\ Head(value) = "<number>" THEN Tail(value)
    ELSE value

\* tokens that match \d+ and tokens that match pdf:\d+ (case-insensitive)
DigitTokens == {"0", "42", "2024", "007"}
PdfTokens == {"pdf:12", "PDF:7"}

\* the (\d+) group of a pdf:<digits> token
PdfDigits(tok) == IF tok = "pdf:12" THEN "12" ELSE "7"

\* parseInt(digits, 10)
parseInt(digits) == Num(IF digits = "007" THEN "7" ELSE digits)

\* String.prototype.trim
RECURSIVE trimStart(_)
trimStart(text) ==
    IF text # <<>> /\ Head(text) = " " THEN trimStart(Tail(text)) ELSE text

RECURSIVE trimEnd(_)
trimEnd(text) ==
    IF text # <<>> /\ text[Len(text)] = " "
    THEN trimEnd(SubSeq(text, 1, Len(text) - 1)) ELSE text

trim(text) == trimEnd(trimStart(text))

\* what the serializer writes: a link [text](href), a mention
\* @[text](mention://href[1]/href[2]/href[3]), or plain text
MdLink(text, href) == [syntax |-> "link", text |-> text, href |-> href]
MdMention(label, id, type, modelId) ==
    [syntax |-> "mention", text |-> label, href |-> id \o type \o modelId]
MdText(text) == [syntax |-> "text", text |-> text, href |-> <<>>]

\* Attachment.toMarkdown: `[${title} ${size}](${href})\n\n`
AttachmentToMarkdown(node) ==
    MdLink(TemplateText(node.attrs.title) \o <<" ">> \o TemplateText(node.attrs.size),
           TemplateText(node.attrs.href))

\* linkText.match(/^(.*?) +<tail>$/): the text ends in a space and a token of
\* TailTokens; the group (.*?) is what stands before the spaces
MatchesTail(linkText, TailTokens) ==
    /\ Len(linkText) >= 2
    /\ linkText[Len(linkText)] \in TailTokens
    /\ linkText[Len(linkText) - 1] = " "

MatchGroup1(linkText) == trimEnd(SubSeq(linkText, 1, Len(linkText) - 2))

\* href.split('/').pop(): the tokens after the last "/"
RECURSIVE LastPart(_)
LastPart(href) ==
    IF href = <<>> THEN <<>>
    ELSE IF "/" \in Range(Tail(href)) \/ Head(href) = "/" THEN LastPart(Tail(href))
    ELSE IF Head(href) = "https://x" THEN <<"x">> \o Tail(href)
    ELSE href

\* lastPart.split('?')[0].split('#')[0]
RECURSIVE BeforeQueryAndHash(_)
BeforeQueryAndHash(part) ==
    IF part = <<>> \/ Head(part) \in {"?id=abc", "#top"} THEN <<>>
    ELSE <<Head(part)>> \o BeforeQueryAndHash(Tail(part))

\* decodeURIComponent(title), the raw text when it throws
decodeURIComponent(text) ==
    [i \in 1..Len(text) |->
        IF text[i] = "report%20final.pdf" THEN "report final.pdf" ELSE text[i]]

\* a variant of AttachmentGetAttrs that takes the whole link text as the title
AttachmentGetAttrsNoSize(tok) ==
    [href |-> tok.href,
     title |-> IF tok.content = <<>> THEN <<"Attachment">> ELSE tok.content,
     size |-> Num("0")]

\* Attachment.parseMarkdown().getAttrs(tok); tok.attrGet("href") is tok.href,
\* tok.children?.[0]?.content || "" is tok.content
AttachmentGetAttrs(tok) ==
    LET href == tok.href
        linkText == tok.content
        pdfMatch == MatchesTail(linkText, PdfTokens)
        genericMatch == MatchesTail(linkText, DigitTokens)
        matched ==
            IF pdfMatch
            THEN [title |-> trim(MatchGroup1(linkText)),
                  size |-> parseInt(PdfDigits(linkText[Len(linkText)]))]
            ELSE IF genericMatch
            THEN [title |-> trim(MatchGroup1(linkText)),
                  size |-> parseInt(linkText[Len(linkText)])]
            ELSE [title |-> linkText, size |-> Num("0")]
        hrefTruthy == href \notin {Null, <<>>}
        title ==
            IF matched.title = <<>> /\ hrefTruthy
            THEN IF LastPart(href) # <<>>
                 THEN decodeURIComponent(BeforeQueryAndHash(LastPart(href)))
                 ELSE <<"Attachment">>
            ELSE IF matched.title = <<>> THEN <<"Attachment">>
            ELSE matched.title
    IN  [href |-> href, title |-> title, size |-> matched.size]

\* Mention.toMarkdown: `@[${label}](mention://${id}/${mType}/${mId})`
MentionToMarkdown(node) ==
    MdMention(TemplateText(node.attrs.label), TemplateText(node.attrs.id),
              TemplateText(node.attrs.type), TemplateText(node.attrs.modelId))

\* Mention.parseMarkdown().getAttrs(tok): the mention rule gives the token the
\* three segments of the mention:// URL as id, type and modelId
MentionGetAttrs(tok) ==
    [id |-> Str(tok.href[1]), type |-> Str(tok.href[2]), modelId |-> Str(tok.href[3]),
     label |-> tok.content]

\* PdfEmbed.toMarkdown: `\n\n[Embedded PDF: ${attachmentId}]\n\n`
PdfEmbedToMarkdown(node) ==
    MdText(<<"[Embedded PDF: ">> \o TemplateText(node.attrs.attachmentId) \o <<"]">>)

\* PdfEmbed.parseMarkdown() returns null: no token is turned into a pdfEmbed
PdfEmbedParseMarkdown == NullNode

MdAttachment(title, size, href) ==
    MkNode("attachment",
           [id |-> Null, href |-> href, title |-> title, size |-> size,
            height |-> Str("500")],
           <<>>, <<>>, "")
PdfEmbedNode(attachmentId) ==
    MkNode("pdfEmbed", [attachmentId |-> attachmentId], <<>>, <<>>, "")

\* the serializer over a document: one Markdown paragraph per block
inlineToMarkdown(node) ==
    IF node.type = "mention" THEN MentionToMarkdown(node) ELSE MdText(<<node.text>>)

blockToMarkdown(node) ==
    CASE node.type = "attachment" -> <<AttachmentToMarkdown(node)>>
      [] node.type = "pdfEmbed" -> <<PdfEmbedToMarkdown(node)>>
      [] OTHER -> [i \in 1..Len(node.content) |-> inlineToMarkdown(node.content[i])]

toMarkdown(doc) == [i \in 1..Len(doc.content) |-> blockToMarkdown(doc.content[i])]

\* the attachment rule: a paragraph that is one link to an attachment
IsAttachmentLink(items) ==
    /\ Len(items) = 1
    /\ items[1].syntax = "link"
    /\ "attachments.redirect" \in Range(items[1].href)

\* the parser over one inline item
inlineFromMarkdown(item) ==
    IF item.syntax = "mention"
    THEN LET attrs == MentionGetAttrs([href |-> item.href, content |-> item.text])
         IN  MkNode("mention",
                    [type |-> attrs.type, label |-> attrs.label, modelId |-> attrs.modelId,
                     actorId |-> Undefined, id |-> attrs.id],
                    <<>>, <<>>, "")
    ELSE IF item.syntax = "link"
    THEN Text(UrlString(item.text), <<Link(item.href)>>)
    ELSE Text(UrlString(item.text), <<>>)

\* the parser over one Markdown paragraph
blockFromMarkdown(items) ==
    IF IsAttachmentLink(items)
    THEN LET attrs == AttachmentGetAttrs([href |-> items[1].href, content |-> items[1].text])
         IN  MdAttachment(attrs.title, attrs.size, attrs.href)
    ELSE Paragraph([i \in 1..Len(items) |-> inlineFromMarkdown(items[i])])

fromMarkdown(markdown) ==
    Doc([i \in 1..Len(markdown) |-> blockFromMarkdown(markdown[i])])

\* attachment nodes: titles that are empty, plain, end in digits, hold pdf:<n>
\* or start with a space
AttachmentTitles ==
    { <<>>, <<"report.pdf">>, <<"file", " ", "2024">>, <<"scan", " ", "pdf:12">>,
      <<" ", "notes">> }
AttachmentSizes == { Num("0"), Num("42"), Num("2024") }
AttachmentHrefs ==
    { <<"https://x", "/", "api", "/", "attachments.redirect", "?id=abc">>,
      <<"/", "api", "/", "attachments.redirect", "?id=abc">> }

MarkdownBlocks ==
    { MdAttachment(t, s, h) : <<t, s, h>> \in AttachmentTitles \X AttachmentSizes \X AttachmentHrefs }
    \cup { Paragraph(<<Text("see", <<>>), Mention(id, t, "u1")>>) :
              <<id, t>> \in {Undefined, Null, Str("m1")} \X {"user", "document"} }
    \cup { PdfEmbedNode(a) : a \in {<<>>, Str("abc")} }

MarkdownDocs == { Doc(blocks) : blocks \in SeqsUpTo(MarkdownBlocks, 1) }

\* the link tokens the attachment rule can hand to getAttrs
LinkTexts ==
    { <<>>, <<"report.pdf">>, <<"report.pdf", " ", "42">>, <<"report.pdf", " ", "007">>,
      <<"scan", " ", "pdf:12">>, <<"scan", " ", " ", "PDF:7">>, <<" ", "42">>,
      <<" ", "pdf:12">>, <<" ">>, <<"v2">> }
LinkHrefs ==
    AttachmentHrefs
    \cup { Null,
           <<"https://x", "/", "files", "/", "report%20final.pdf">>,
           <<"https://x", "/", "files", "/">>,
           <<"https://x", "/", "files", "/", "?id=abc">>,
           <<"https://x", "/", "files", "/", "#top">>,
           <<"https://x">> }

\* serializer.serialize(doc)
ToMarkdown ==
    /\ op = "none"
    /\ \E doc \in MarkdownDocs :
        /\ op' = "toMarkdown"
        /\ arg' = NodeArg(doc)
        /\ argAfter' = NodeArg(doc)
        /\ opts' = [markdown |-> toMarkdown(doc)]
        /\ result' = NoCall
        /\ UNCHANGED <<signVars, editor, task, viewer>>

\* parser.parse(markdown) of the text just written
FromMarkdown ==
    /\ op = "toMarkdown"
    /\ op' = "fromMarkdown"
    /\ result' = Returned(fromMarkdown(opts.markdown))
    /\ UNCHANGED <<arg, argAfter, opts, signVars, editor, task, viewer>>

\* getAttrs of Attachment.parseMarkdown on a link token
ParseAttachmentToken ==
    /\ op = "none"
    /\ \E content \in LinkTexts, href \in LinkHrefs :
        /\ op' = "getAttrs"
        /\ opts' = [token |-> [href |-> href, content |-> content]]
        /\ result' = [status |-> "returned",
                      value |-> AttachmentGetAttrs([href |-> href, content |-> content])]
        /\ UNCHANGED <<arg, argAfter, signVars, editor, task, viewer>>

NextMarkdown == ToMarkdown \/ FromMarkdown \/ ParseAttachmentToken

SpecMarkdown == InitIdle /\ [][NextMarkdown]_vars

----------------------------------------------------------------------------
(* ExportPDFTask and the Puppeteer PdfGenerator.                            *)
(*                                                                          *)
(* A run is followed await by await: every awaited call either resolves or  *)
(* rejects, and a rejection inside the try block runs the catch block and   *)
(* the finally block.  Paths are sequences of segments, file names strings. *)
(* The model exports one collection, whose documentStructure is a tree of   *)
(* depth two; documents the query returns that are not in the structure     *)
(* (archived documents, templates) are "unlisted".                          *)

MaxDocs == 2

Titles == {"Plan", "Plan (1)", "a/b", ""}

Places == {"top", "child", "unlisted"}

\* the documents of the collection: ids 1..n, the first is not a child
ExportDocs(n) ==
    { [k \in 1..n |-> [id |-> k, title |-> f[k].title, place |-> f[k].place]] :
        f \in { g \in [1..n -> [title : Titles, place : Places]] :
                  n > 0 => g[1].place # "child" } }

RECURSIVE SortedSeq(_)
SortedSeq(S) ==
    IF S = {} THEN <<>>
    ELSE LET m == CHOOSE x \in S : \A y \in S : x <= y
         IN <<m>> \o SortedSeq(S \ {m})

\* collection.documentStructure: the listed documents as NavigationNodes, a
\* "child" below the nearest "top" document before it
documentStructure(docs) ==
    LET tops == {k \in DOMAIN docs : docs[k].place = "top"}
        kids(k) == {j \in DOMAIN docs :
                      /\ j > k
                      /\ docs[j].place = "child"
                      /\ \A m \in tops : ~(k < m /\ m < j)}
        leaf(j) == [id |-> docs[j].id, title |-> docs[j].title, children |-> <<>>]
        node(k) == [id |-> docs[k].id, title |-> docs[k].title,
                    children |-> [x \in 1..Cardinality(kids(k)) |->
                                    leaf(SortedSeq(kids(k))[x])]]
    IN [x \in 1..Cardinality(tops) |-> node(SortedSeq(tops)[x])]

\* serializeFilename: a title as one path segment, slashes escaped
serializeFilename(title) == IF title = "a/b" THEN "a%2Fb" ELSE title

\* path.join(root, name) and path.dirname(p)
pathJoin(root, name) == root \o <<name>>

dirname(p) == SubSeq(p, 1, Len(p) - 1)

\* Array.from(map.values()); a map is a sequence of [id, path], one entry
\* for the two keys node.url and /doc/<id> of a node
MapValues(map) == {map[k].path : k \in DOMAIN map}

\* the let/while of addDocumentTreeToPathMap: the first free file path
RECURSIVE freePath(_, _, _, _)
freePath(map, root, title, i) ==
    LET name == IF i = 0 THEN title \o ".pdf"
                ELSE title \o " (" \o ToString(i) \o ").pdf"
        filePath == pathJoin(root, name)
    IN IF filePath \in MapValues(map) THEN freePath(map, root, title, i + 1)
       ELSE filePath

RECURSIVE addDocumentTreeToPathMap(_, _, _)
addDocumentTreeToPathMap(map, nodes, root) ==
    IF Len(nodes) = 0 THEN map
    ELSE LET node == Head(nodes)
             title == IF serializeFilename(node.title) = "" THEN "Untitled"
                      ELSE serializeFilename(node.title)
             withNode == Append(map, [id |-> node.id,
                                      path |-> freePath(map, root, title, 0)])
             withChildren ==
                 IF Len(node.children) > 0
                 THEN addDocumentTreeToPathMap(withNode, node.children,
                                               pathJoin(root, title))
                 ELSE withNode
         IN addDocumentTreeToPathMap(withChildren, Tail(nodes), root)

CollectionName == "Docs"

\* createPdfPathMap for the one collection
createPdfPathMap(structure) ==
    addDocumentTreeToPathMap(<<>>, structure, <<serializeFilename(CollectionName)>>)

\* pathMap.get(`/doc/${document.id}`) || `${serializeFilename(document.title)}.pdf`
documentPath(pathMap, document) ==
    LET hit == {k \in DOMAIN pathMap : pathMap[k].id = document.id}
    IN IF hit # {} THEN pathMap[CHOOSE k \in hit : TRUE].path
       ELSE <<serializeFilename(document.title) \o ".pdf">>

\* a run of ExportPDFTask.perform ("export") or of generatePdfForDocument
\* ("generate") before its first await
NewRun(kind, all) ==
    [kind |-> kind,
     pc |-> IF kind = "export" THEN "update_uploading" ELSE "launch",
     state |-> "creating",      \* fileOperation.state
     wasUploading |-> FALSE,    \* the update to Uploading has resolved
     all |-> all,               \* the documents of the collection
     documents |-> <<>>,        \* the documents to export
     pathMap |-> <<>>,
     i |-> 1,                   \* next document of the for loop
     zip |-> <<>>,              \* entries appended: [name, doc], doc 0 = attachment
     browserVar |-> FALSE,      \* the variable browser holds a browser
     browser |-> "none",        \* the launched browser: none, open, closed
     closeRejected |-> FALSE,   \* a browser.close() call has rejected
     tmp |-> "absent",          \* the temporary zip file
     stored |-> FALSE,          \* FileStorage.store has resolved
     update |-> "none",         \* the update to Error: none, pending, done, failed
     remove |-> "none",         \* fs.remove(tmpPath): none, pending, done, failed
     outcome |-> "running"]     \* the promise of the run: resolved, rejected

\* the catch block of perform: log, start the update to Error, do not wait
Catch(t) == [t EXCEPT !.update = "pending"]

\* the finally block of perform without the browser: it removes the temporary
\* file only
FinallyNoClose(t) ==
    [t EXCEPT !.remove = "pending", !.pc = "done",
              !.outcome = IF t.outcome = "running" THEN "resolved" ELSE t.outcome]

\* the finally block of perform up to its first await: with a browser it
\* awaits browser.close(), without one it starts fs.remove and the run ends
Finally(t) ==
    IF t.browserVar THEN [t EXCEPT !.pc = "closing"]
    ELSE [t EXCEPT !.remove = "pending", !.pc = "done",
                   !.outcome = IF t.outcome = "running" THEN "resolved" ELSE t.outcome]

\* an awaited call inside the try block rejected
Rejected(t) == Finally(Catch(t))

ExportAt(pc) == task.kind = "export" /\ task.pc = pc

OnlyTask == UNCHANGED <<op, arg, argAfter, opts, result, signVars, editor, viewer>>

\* perform up to its first await: the operation is found, the zip created
Perform ==
    /\ task.kind = "none"
    /\ \E n \in 0..MaxDocs : \E all \in ExportDocs(n) :
           task' = NewRun("export", all)
    /\ OnlyTask

\* await fileOperation.update({ state: Uploading })
UpdateUploading ==
    /\ ExportAt("update_uploading")
    /\ \E ok \in BOOLEAN :
           task' = IF ok THEN [task EXCEPT !.state = "uploading",
                                           !.wasUploading = TRUE, !.pc = "fetch"]
                   ELSE Rejected(task)
    /\ OnlyTask

\* the documents to export: one document of the collection or all of them
FetchDocuments ==
    /\ ExportAt("fetch")
    /\ \E ok \in BOOLEAN, single \in BOOLEAN :
           /\ (ok /\ single) => Len(task.all) > 0
           /\ task' = IF ok
                      THEN [task EXCEPT !.documents = IF single THEN <<task.all[1]>>
                                                      ELSE task.all,
                                        !.pc = "launch"]
                      ELSE Rejected(task)
    /\ OnlyTask

\* browser = await puppeteer.launch(...); pathMap = createPdfPathMap(...)
Launch ==
    /\ ExportAt("launch")
    /\ \E ok \in BOOLEAN :
           task' = IF ok
                   THEN [task EXCEPT !.browserVar = TRUE, !.browser = "open",
                                     !.pathMap = createPdfPathMap(documentStructure(task.all)),
                                     !.pc = IF Len(task.documents) = 0 THEN "close"
                                            ELSE "render"]
                   ELSE Rejected(task)
    /\ OnlyTask

\* one turn of the for loop: the PDF of a document and its attachments.  A
\* failing page call rejects the run; an unreadable attachment is skipped.
RenderDocument ==
    /\ ExportAt("render")
    /\ \E ok \in BOOLEAN, att \in {"none", "read", "unreadable"} :
           LET document == task.documents[task.i]
               path == documentPath(task.pathMap, document)
               pdf == <<[name |-> path, doc |-> document.id]>>
               files == IF att = "read"
                        THEN <<[name |-> dirname(path) \o <<"uploads", ToString(document.id)>>,
                                doc |-> 0]>>
                        ELSE <<>>
           IN task' = IF ok
                      THEN [task EXCEPT !.zip = task.zip \o pdf \o files,
                                        !.i = task.i + 1,
                                        !.pc = IF task.i = Len(task.documents)
                                               THEN "close" ELSE "render"]
                      ELSE Rejected(task)
    /\ OnlyTask

\* await browser.close(); browser = undefined
CloseBrowser ==
    /\ ExportAt("close")
    /\ \E ok \in BOOLEAN :
           task' = IF ok
                   THEN [task EXCEPT !.browser = "closed", !.browserVar = FALSE,
                                     !.pc = "pipe"]
                   ELSE Rejected([task EXCEPT !.closeRejected = TRUE])
    /\ OnlyTask

\* zip.finalize(); the archive is piped into the temporary file
PipeZip ==
    /\ ExportAt("pipe")
    /\ \E ok \in BOOLEAN :
           task' = IF ok THEN [task EXCEPT !.tmp = "present", !.pc = "store"]
                   ELSE Rejected([task EXCEPT !.tmp = "present"])
    /\ OnlyTask

\* fs.stat and FileStorage.store
Store ==
    /\ ExportAt("store")
    /\ \E ok \in BOOLEAN :
           task' = IF ok THEN [task EXCEPT !.stored = TRUE, !.pc = "update_complete"]
                   ELSE Rejected(task)
    /\ OnlyTask

\* await fileOperation.update({ state: Complete, ... })
UpdateComplete ==
    /\ ExportAt("update_complete")
    /\ \E ok \in BOOLEAN :
           task' = IF ok THEN Finally([task EXCEPT !.state = "complete"])
                   ELSE Rejected(task)
    /\ OnlyTask

\* the finally block: await browser.close() settles; a rejection leaves the
\* finally block, and the run, at once
FinallyClose ==
    /\ ExportAt("closing")
    /\ \E ok \in BOOLEAN :
           task' = IF ok
                   THEN [task EXCEPT !.browser = "closed", !.remove = "pending",
                                     !.pc = "done", !.outcome = "resolved"]
                   ELSE [task EXCEPT !.closeRejected = TRUE, !.pc = "done",
                                     !.outcome = "rejected"]
    /\ OnlyTask

\* the update to Error that the catch block started settles
UpdateSettles ==
    /\ task.kind = "export"
    /\ task.update = "pending"
    /\ \E ok \in BOOLEAN :
           task' = IF ok THEN [task EXCEPT !.update = "done", !.state = "error"]
                   ELSE [task EXCEPT !.update = "failed"]
    /\ OnlyTask

\* the fs.remove that the finally block started settles
RemoveSettles ==
    /\ task.kind = "export"
    /\ task.remove = "pending"
    /\ \E ok \in BOOLEAN :
           task' = IF ok THEN [task EXCEPT !.remove = "done", !.tmp = "absent"]
                   ELSE [task EXCEPT !.remove = "failed"]
    /\ OnlyTask

\* generatePdfForDocument: its finally block awaits browser.close() inside a
\* try/catch, its catch block rethrows
GenerateFinally(t, outcome) ==
    IF t.browserVar THEN [t EXCEPT !.pc = "closing", !.outcome = outcome]
    ELSE [t EXCEPT !.pc = "done", !.outcome = outcome]

GenerateAt(pc) == task.kind = "generate" /\ task.pc = pc

GeneratePdfForDocument ==
    /\ task.kind = "none"
    /\ \E all \in ExportDocs(1) :
           task' = [NewRun("generate", all) EXCEPT !.documents = all]
    /\ OnlyTask

GenerateLaunch ==
    /\ GenerateAt("launch")
    /\ \E ok \in BOOLEAN :
           task' = IF ok THEN [task EXCEPT !.browserVar = TRUE, !.browser = "open",
                                           !.pc = "render"]
                   ELSE GenerateFinally(task, "rejected")
    /\ OnlyTask

GenerateRender ==
    /\ GenerateAt("render")
    /\ \E ok \in BOOLEAN :
           task' = IF ok THEN [task EXCEPT !.i = task.i + 1, !.pc = "close"]
                   ELSE GenerateFinally(task, "rejected")
    /\ OnlyTask

GenerateClose ==
    /\ GenerateAt("close")
    /\ \E ok \in BOOLEAN :
           task' = IF ok
                   THEN GenerateFinally([task EXCEPT !.browser = "closed",
                                                     !.browserVar = FALSE], "resolved")
                   ELSE GenerateFinally([task EXCEPT !.closeRejected = TRUE], "rejected")
    /\ OnlyTask

GenerateFinallyClose ==
    /\ GenerateAt("closing")
    /\ \E ok \in BOOLEAN :
           task' = IF ok THEN [task EXCEPT !.browser = "closed", !.pc = "done"]
                   ELSE [task EXCEPT !.closeRejected = TRUE, !.pc = "done"]
    /\ OnlyTask

NextExport ==
    \/ Perform
    \/ UpdateUploading
    \/ FetchDocuments
    \/ Launch
    \/ RenderDocument
    \/ CloseBrowser
    \/ PipeZip
    \/ Store
    \/ UpdateComplete
    \/ FinallyClose
    \/ UpdateSettles
    \/ RemoveSettles
    \/ GeneratePdfForDocument
    \/ GenerateLaunch
    \/ GenerateRender
    \/ GenerateClose
    \/ GenerateFinallyClose

SpecExport == InitIdle /\ [][NextExport]_vars

----------------------------------------------------------------------------
(* CommentUpdatedNotificationsTask                                          *)

MaxMentions == 2

\* a mention of a user in a comment, written by actorId
UserMention(id, modelId, actorId) ==
    [Mention(Str(id), "user", modelId) EXCEPT !.attrs.actorId = Str(actorId)]

CommentLeaves ==
    { UserMention("m1", "u1", "u9"),
      UserMention("m2", "u1", "u9"),
      UserMention("m3", "u2", "u9"),
      UserMention("m4", "u9", "u9"),
      Mention(Str("m5"), "document", "d1") }

\* comment.data: one paragraph of mentions
CommentData ==
    { ObjectData(Doc(<<Paragraph(s)>>)) :
        s \in UNION { [1..n -> CommentLeaves] : n \in 0..MaxMentions } }

\* event.data: newMentionIds can be missing
CommentEvents ==
    [given : BOOLEAN, newMentionIds : SUBSET {Str("m1"), Str("m2"), Str("m3"), Str("m4")}]

\* parseMentions(toProsemirror(comment.data), { type: MentionType.User })
\*   .filter((mention) => newMentionIds.includes(mention.id))
newMentions(data, newMentionIds) ==
    LET mentions == parseMentions(toProsemirror(data).value,
                                  [type |-> Str("user"), modelId |-> NoFilter])
    IN SelectSeq(mentions, LAMBDA mention : mention.id \in newMentionIds)

\* the condition under which the loop creates a notification: the mention is
\* not skipped by userIdsMentioned, has an actor, its recipient exists
\* (recipient.id is mention.modelId), is not the actor, is subscribed and can
\* read the document
shouldNotify(mention, userIdsMentioned, recipientFound, subscribed, canAccess) ==
    /\ ~Contains(userIdsMentioned, mention.modelId)
    /\ Truthy(mention, "actorId")
    /\ recipientFound
    /\ mention.modelId # mention.actorId
    /\ subscribed
    /\ canAccess

NotifyAt(pc) == task.kind = "notify" /\ task.pc = pc

\* perform up to its first await: without newMentionIds it returns
PerformNotify ==
    /\ task.kind = "none"
    /\ \E event \in CommentEvents, data \in CommentData :
           task' = [kind |-> "notify",
                    pc |-> IF event.given THEN "find" ELSE "done",
                    event |-> event,
                    data |-> data,
                    mentions |-> <<>>,
                    i |-> 1,
                    userIdsMentioned |-> <<>>,
                    notifications |-> <<>>]
    /\ OnlyTask

\* Promise.all([Document.findOne, Comment.findByPk]) resolves; the mentions
\* are parsed and filtered, userIdsMentioned starts empty
FindDocumentAndComment ==
    /\ NotifyAt("find")
    /\ \E bothFound \in BOOLEAN :
           LET mentions == newMentions(task.data, task.event.newMentionIds)
           IN task' = IF bothFound /\ Len(mentions) > 0
                      THEN [task EXCEPT !.mentions = mentions, !.pc = "loop"]
                      ELSE [task EXCEPT !.pc = "done"]
    /\ OnlyTask

\* one turn of the for loop; nothing is added to userIdsMentioned
NotifyMention ==
    /\ NotifyAt("loop")
    /\ \E recipientFound \in BOOLEAN, subscribed \in BOOLEAN, canAccess \in BOOLEAN :
           LET mention == task.mentions[task.i]
               created == IF shouldNotify(mention, task.userIdsMentioned,
                                          recipientFound, subscribed, canAccess)
                          THEN <<[userId |-> mention.modelId,
                                  actorId |-> mention.actorId,
                                  mentionId |-> mention.id]>>
                          ELSE <<>>
           IN task' = [task EXCEPT !.notifications = task.notifications \o created,
                                   !.i = task.i + 1,
                                   !.pc = IF task.i = Len(task.mentions) THEN "done"
                                          ELSE "loop"]
    /\ OnlyTask

NextNotify == PerformNotify \/ FindDocumentAndComment \/ NotifyMention

SpecNotify == InitIdle /\ [][NextNotify]_vars

----------------------------------------------------------------------------
(* PdfViewer: the component's props and state, what it renders, and the     *)
(* PDF behind pdfUrl                                                        *)

MaxPages == 2
MaxRenders == 3

ViewerAttachmentIds == {"a", "b", "ab"}

\* the component after its first render: the initial values of useState
NewViewer(attachmentId, isSelected, isEditable) ==
    [mounted |-> TRUE,
     attachmentId |-> attachmentId,
     isSelected |-> isSelected,
     isEditable |-> isEditable,
     numPages |-> 0,          \* 0 stands for null
     isLoading |-> TRUE,
     error |-> "",            \* "" stands for null
     pdf |-> "pending",       \* the PDF behind pdfUrl: pending, ready, broken
     pages |-> 0,             \* its number of pages once it is ready
     renders |-> 1]

\* what the component renders
LoadingOverlayShown(v) == v.isLoading

ErrorOverlayShown(v) == v.error # "" /\ ~v.isLoading

DocumentRendered(v) == ~v.isLoading /\ v.error = ""

PagesShown(v) == IF DocumentRendered(v) THEN v.numPages ELSE 0

onDocumentLoadSuccess(v, numPages) ==
    [v EXCEPT !.numPages = numPages, !.isLoading = FALSE, !.error = ""]

onDocumentLoadError(v, message) ==
    [v EXCEPT !.error = "Failed to load PDF: " \o
                        (IF message = "" THEN "Unknown error" ELSE message),
              !.isLoading = FALSE]

OnlyViewer == UNCHANGED <<op, arg, argAfter, opts, result, signVars, editor, task>>

\* the node view renders the component for the first time
MountViewer ==
    /\ ~viewer.mounted
    /\ \E attachmentId \in ViewerAttachmentIds, isSelected \in BOOLEAN,
          isEditable \in BOOLEAN :
           viewer' = NewViewer(attachmentId, isSelected, isEditable)
    /\ OnlyViewer

\* the editor selects or deselects the node, or changes its editable flag:
\* the component renders again with its state kept
SetProps ==
    /\ viewer.mounted
    /\ viewer.renders < MaxRenders
    /\ \E isSelected \in BOOLEAN, isEditable \in BOOLEAN :
           /\ <<isSelected, isEditable>> # <<viewer.isSelected, viewer.isEditable>>
           /\ viewer' = [viewer EXCEPT !.isSelected = isSelected,
                                       !.isEditable = isEditable,
                                       !.renders = viewer.renders + 1]
    /\ OnlyViewer

\* the PDF behind pdfUrl turns out to be readable, with some number of
\* pages, or not readable.  Only a Document that is rendered loads it and
\* calls onLoadSuccess or onLoadError.
PdfSettles ==
    /\ viewer.mounted
    /\ viewer.pdf = "pending"
    /\ \E pages \in 0..MaxPages :
           LET settled == [viewer EXCEPT !.pdf = IF pages = 0 THEN "broken" ELSE "ready",
                                         !.pages = pages]
           IN viewer' = IF ~DocumentRendered(viewer) THEN settled
                        ELSE IF pages = 0 THEN onDocumentLoadError(settled, "")
                        ELSE onDocumentLoadSuccess(settled, pages)
    /\ OnlyViewer

NextViewer == MountViewer \/ SetProps \/ PdfSettles

SpecViewer == InitIdle /\ [][NextViewer]_vars

----------------------------------------------------------------------------
(* Claims about toProsemirror, checked under SpecBuild                     *)

CalledToProsemirror == op = "toProsemirror"

\* the JSON object cannot be constructed strictly against the schema: the
\* construction throws, or a node holds a child its content rule does not allow
StrictConstructionFails(json) ==
    \/ ~fromJSON(json).ok
    \/ ~ContentValid(fromJSON(json).node)

\* C1 as stated: for every input, toProsemirror returns a doc node, never
\* raising and never returning null.
C1_AlwaysDocNode ==
    CalledToProsemirror =>
        /\ result.status = "returned"
        /\ result.value.type = "doc"

\* C1 amended: toProsemirror always returns a node of the schema (it never
\* raises, never returns null); the node is a doc node unless the input is a
\* JSON object that names another node type and constructs without error, and
\* then that node is returned.
C1_Total ==
    CalledToProsemirror =>
        /\ result.status = "returned"
        /\ result.value # NullNode
        /\ result.value.type \in NodeTypeNames
        /\ \/ result.value.type = "doc"
           \/ /\ arg.kind = "object"
              /\ arg.json.type = result.value.type
              /\ fromJSON(arg.json).ok

\* C1 witness: a JSON document whose construction throws came back as the
\* empty document.
C1_Witness ==
    /\ CalledToProsemirror
    /\ arg.kind = "object"
    /\ arg.json.type = "doc"
    /\ Len(arg.json.content) = 2
    /\ ~fromJSON(arg.json).ok
    /\ result = Returned(EmptyDoc)

\* C2 as stated: a JSON object whose strict construction fails (unknown type,
\* bad attrs, or a child its parent's content rule does not allow) yields the
\* empty document.
C2_StrictOrEmpty ==
    (/\ CalledToProsemirror
     /\ arg.kind = "object"
     /\ arg.json.type # ""
     /\ StrictConstructionFails(arg.json))
        => result = Returned(EmptyDoc)

----------------------------------------------------------------------------
(* Claims about the reference extractor, checked under SpecRefs            *)

\* every node below the root, in document (depth-first, pre-order) order
RECURSIVE NodesInOrder(_)
NodesInOrder(children) ==
    IF children = <<>> THEN <<>>
    ELSE <<Head(children)>> \o NodesInOrder(Head(children).content)
         \o NodesInOrder(Tail(children))

NoDuplicates(s) == \A i, j \in 1..Len(s) : i # j => s[i] # s[j]

\* the index at which x occurs first in s
FirstIndex(s, x) == CHOOSE i \in 1..Len(s) : s[i] = x /\ \A j \in 1..(i - 1) : s[j] # x

\* r lists the distinct elements of s, each once, in the order of first occurrence
FirstOccurrences(r, s) ==
    /\ NoDuplicates(r)
    /\ Range(r) = Range(s)
    /\ \A i, j \in 1..Len(r) : i < j => FirstIndex(s, r[i]) < FirstIndex(s, r[j])

PassesFilter(attrs, options) ==
    /\ options.type # NoFilter => attrs.type = options.type
    /\ options.modelId # NoFilter => attrs.modelId = options.modelId

\* the attrs of the mention nodes of doc that pass the filter, in document order
RECURSIVE MatchingMentions(_, _)
MatchingMentions(nodes, options) ==
    IF nodes = <<>> THEN <<>>
    ELSE (IF Head(nodes).type = "mention" /\ PassesFilter(Head(nodes).attrs, options)
          THEN <<Head(nodes).attrs>> ELSE <<>>)
         \o MatchingMentions(Tail(nodes), options)

\* C8: parseMentions returns, in document order, one entry per distinct id
\* among the mentions that pass the filter - the attrs of the first such
\* mention; no two entries share an id and every entry passes the filter.
C8_ParseMentions ==
    op = "parseMentions" =>
        LET m == MatchingMentions(NodesInOrder(arg.json.content), opts)
            ids == [i \in 1..Len(m) |-> m[i].id]
            r == result.value
        IN  /\ result.status = "returned"
            /\ \A i \in 1..Len(r) : PassesFilter(r[i], opts)
            /\ FirstOccurrences([i \in 1..Len(r) |-> r[i].id], ids)
            /\ \A i \in 1..Len(r) : r[i] = m[FirstIndex(ids, r[i].id)]

\* C8 witness: a filtered call on a document where an id is repeated by a
\* later matching mention with other attrs, and two ids are returned.
C8_Witness ==
    /\ op = "parseMentions"
    /\ opts.modelId # NoFilter
    /\ Len(result.value) = 2
    /\ LET m == MatchingMentions(NodesInOrder(arg.json.content), opts)
       IN  \E i, j \in 1..Len(m) : i < j /\ m[i].id = m[j].id /\ m[i] # m[j]

\* the document identifiers a node refers to: the modelId of a document
\* mention, the slugs of the link marks of a text node
RECURSIVE SlugsOf(_)
SlugsOf(marks) ==
    IF marks = <<>> THEN <<>>
    ELSE (IF Head(marks).type = "link" /\ parseDocumentSlug(Head(marks).attrs.href) # NoSlug
          THEN <<parseDocumentSlug(Head(marks).attrs.href)>> ELSE <<>>)
         \o SlugsOf(Tail(marks))

RECURSIVE DocumentRefs(_)
DocumentRefs(nodes) ==
    IF nodes = <<>> THEN <<>>
    ELSE (CASE Head(nodes).type = "mention" /\ Head(nodes).attrs.type = Str("document")
                 -> <<Head(nodes).attrs.modelId>>
            [] Head(nodes).type = "text" -> SlugsOf(Head(nodes).marks)
            [] OTHER -> <<>>)
         \o DocumentRefs(Tail(nodes))

\* C9: parseDocumentIds returns the identifiers referenced by document
\* mentions and by link marks of text nodes, each once, in the order of first
\* occurrence, and nothing else.
C9_ParseDocumentIds ==
    op = "parseDocumentIds" =>
        /\ result.status = "returned"
        /\ FirstOccurrences(result.value, DocumentRefs(NodesInOrder(arg.json.content)))

\* C9 witness: a document that refers to one document twice, by a mention and
\* by a link, and holds a link mark on a node that is not text.
C9_Witness ==
    /\ op = "parseDocumentIds"
    /\ result.value = << <<"d1">> >>
    /\ Len(DocumentRefs(NodesInOrder(arg.json.content))) = 2
    /\ \E n \in Range(NodesInOrder(arg.json.content)) : n.type = "mention"
    /\ \E n \in Range(NodesInOrder(arg.json.content)) : n.type = "text"
    /\ \E n \in Range(NodesInOrder(arg.json.content)) :
            n.type = "image" /\ n.marks # <<>>

\* the URLs parseAttachmentIds is to read from a node
UrlsOfNode(n) ==
    { n.marks[i].attrs.href : i \in { k \in 1..Len(n.marks) : n.marks[k].type = "link" } }
    \cup (IF n.type \in {"image", "video"} THEN {n.attrs.src} ELSE {})
    \cup (IF n.type = "attachment" THEN {n.attrs.href} ELSE {})

\* the attachment ids that occur in a URL after the redirect path
IdsInUrl(url) ==
    { IdRun(SubSeq(url, i + 1, Len(url))) : i \in { k \in 1..Len(url) : url[k] = Redirect } }
    \ {<<>>}

\* C10: parseAttachmentIds returns exactly the ids that occur in redirect URLs
\* of link marks, image and video src and attachment href, each once.
C10_ParseAttachmentIds ==
    op = "parseAttachmentIds" =>
        /\ result.status = "returned"
        /\ NoDuplicates(result.value)
        /\ Range(result.value) =
              UNION { IdsInUrl(u) :
                        u \in UNION { UrlsOfNode(n) :
                                        n \in Range(NodesInOrder(arg.json.content)) } }

\* C10 witness: an image whose src is a redirect URL gave its id, the same id
\* occurs in a second URL, and a URL of another site gave nothing.
C10_Witness ==
    /\ op = "parseAttachmentIds"
    /\ result.value = << <<"b">> >>
    /\ \E n \in Range(NodesInOrder(arg.json.content)) :
            n.type = "image" /\ n.attrs.src = <<Redirect, "b">>
    /\ \E n \in Range(NodesInOrder(arg.json.content)) :
            n.type = "video"
    /\ \E n \in Range(NodesInOrder(arg.json.content)) :
            n.type = "text" /\ IdsInUrl(n.marks[1].attrs.href) = {}

----------------------------------------------------------------------------
(* Claims about signAttachmentUrls, checked under SpecSign                 *)

\* the URLs of a node, each paired with the URL at the same place of the
\* rewritten node: the src and href attributes and the href of link marks
UrlPairsOfNode(o, n) ==
    (IF Truthy(o.attrs, "src") THEN {<<o.attrs.src, n.attrs.src>>} ELSE {})
    \cup (IF Truthy(o.attrs, "href") THEN {<<o.attrs.href, n.attrs.href>>} ELSE {})
    \cup { <<o.marks[k].attrs.href, n.marks[k].attrs.href>> :
             k \in { i \in 1..Len(o.marks) : o.marks[i].type = "link" } }

UrlPairs(before, after) ==
    LET os == NodesInOrder(before.content)
        ns == NodesInOrder(after.content)
    IN  UNION { UrlPairsOfNode(os[i], ns[i]) : i \in 1..Len(os) }

SignSettled == op = "signAttachmentUrls" /\ pending = {} /\ result.status # "pending"

\* C4 as stated: when getSignedUrl fails for an attachment, the call still
\* returns JSON: the URLs of the other attachments are signed and those of the
\* failing attachment are as they were.
C4_PartialSuccess ==
    (SignSettled /\ failed # {}) =>
        /\ result.status = "returned"
        /\ \A p \in UrlPairs(arg.json, result.value) :
              (\E a \in failed : a.id \in IdsInUrl(p[1])) => p[2] = p[1]

\* C5 as stated: in the returned JSON every URL that refers to a resolved
\* attachment - in a src attribute, an href attribute or a link mark of any
\* node - is the signed URL of that attachment.
C5_EveryOccurrenceSigned ==
    (op = "signAttachmentUrls" /\ result.status = "returned") =>
        \A p \in UrlPairs(arg.json, result.value) :
            (\E a \in found : a.id \in IdsInUrl(p[1]))
                => \E a \in found : a.id \in IdsInUrl(p[1]) /\ p[2] = getSignedUrl(a)

\* C6 as stated: in the returned JSON a URL that refers to no attachment found
\* for the team is the URL of the input.
C6_OnlyTeamAttachments ==
    (op = "signAttachmentUrls" /\ result.status = "returned") =>
        \A p \in UrlPairs(arg.json, result.value) :
            (\A a \in found : a.id \notin IdsInUrl(p[1])) => p[2] = p[1]

\* C23 as stated: when two attachments were resolved and the redirect URL of
\* one is a prefix of the redirect URL of the other, a URL that carries the
\* longer id is not replaced by the signed URL of the attachment with the
\* shorter id.
C23_LongerIdNotShadowed ==
    (op = "signAttachmentUrls" /\ result.status = "returned") =>
        \A p \in UrlPairs(arg.json, result.value) :
            \A a, b \in found :
                (/\ a # b
                 /\ IsPrefix(redirectUrl(a), redirectUrl(b))
                 /\ b.id \in IdsInUrl(p[1]))
                    => p[2] # getSignedUrl(a)

----------------------------------------------------------------------------
(* Claims about the in-place helpers, checked under SpecRewrite            *)

\* C7 as stated: after removeMarks or replaceInternalUrls the caller's input,
\* a Node or plain data, is as it was before the call.
C7_InputUnchanged ==
    op \in {"removeMarks", "replaceInternalUrls"} => argAfter = arg

\* the nodes of a tree in document order, the top node first
AllNodes(tree) == <<tree>> \o NodesInOrder(tree.content)

\* the marks of a list whose type is not named in M, in their order
MarksOutside(marks, M) == SelectSeq(marks, LAMBDA mark : mark.type \notin Range(M))

\* C16: removeMarks(tree, M) has the nodes of the tree, each with its type,
\* attributes, text and number of children, and with exactly those of its
\* marks whose type is not in M; removing the marks of M from the result again
\* gives the result.
C16_RemoveMarksExact ==
    op = "removeMarks" =>
        LET before == AllNodes(arg.json)
            after == AllNodes(result.value)
        IN  /\ result.status = "returned"
            /\ Len(after) = Len(before)
            /\ \A i \in 1..Len(before) :
                  /\ after[i].type = before[i].type
                  /\ after[i].attrs = before[i].attrs
                  /\ after[i].text = before[i].text
                  /\ Len(after[i].content) = Len(before[i].content)
                  /\ after[i].marks = MarksOutside(before[i].marks, opts.marks)
                  /\ \A k \in 1..Len(after[i].marks) :
                        after[i].marks[k].type \notin Range(opts.marks)
            /\ removeMarks(result.value, opts.marks) = result.value

\* C16 witness: strong and comment were removed from a tree whose text has a
\* strong mark and a link mark; the link mark is what the result keeps.
C16_Witness ==
    /\ op = "removeMarks"
    /\ opts.marks = <<"strong", "comment">>
    /\ \E i \in 1..Len(AllNodes(arg.json)) :
          /\ AllNodes(arg.json)[i].marks = <<Strong, Link(<<DocPath, "s1">>)>>
          /\ AllNodes(result.value)[i].marks = <<Link(<<DocPath, "s1">>)>>

\* C17: replaceInternalUrls rejects exactly when basePath ends with "/"; when
\* it rejects, the input is as it was before the call and no JSON is returned.
C17_RejectsTrailingSlash ==
    op = "replaceInternalUrls" =>
        /\ result.status = "raised" <=> EndsWithSlash(opts.basePath)
        /\ result.status # "raised" => result.status = "returned"
        /\ result.status = "raised" =>
              /\ argAfter = arg
              /\ result.value = NullNode

\* C17 witness: a call with basePath "/s/share-1/" on plain data that holds a
\* link to /doc/s1 was rejected.
C17_Witness ==
    /\ op = "replaceInternalUrls"
    /\ opts.basePath = <<"/s/share-1", "/">>
    /\ arg.kind = "data"
    /\ result.status = "raised"
    /\ \E i \in 1..Len(AllNodes(arg.json)) :
          Link(<<DocPath, "s1">>) \in Range(AllNodes(arg.json)[i].marks)

\* the href of a node and of its link marks, each paired with the href at the
\* same place of the rewritten node
HrefPairsOfNode(o, n) ==
    (IF HasAttr(o.attrs, "href") /\ IsString(o.attrs.href)
     THEN {<<o.attrs.href, n.attrs.href>>} ELSE {})
    \cup { <<o.marks[k].attrs.href, n.marks[k].attrs.href>> :
             k \in { i \in 1..Len(o.marks) : o.marks[i].type = "link" } }

HrefPairs(before, after) ==
    UNION { HrefPairsOfNode(AllNodes(before)[i], AllNodes(after)[i]) :
              i \in 1..Len(AllNodes(before)) }

\* C27 as stated: in the JSON replaceInternalUrls returns, an href that is not
\* an internal URL is the href of the input, and an internal href is the href
\* of the input with basePath put once ahead of its first /doc/.
C27_OnlyInternalUrlsRewritten ==
    (op = "replaceInternalUrls" /\ result.status = "returned") =>
        \A p \in HrefPairs(arg.json, result.value) :
            p[2] = IF isInternalUrl(p[1]) THEN replaceUrl(p[1], opts.basePath) ELSE p[1]

----------------------------------------------------------------------------
(* Claims about toPdfHtml, checked under SpecPdf                           *)

\* the script elements that markup parsed into a page contains
ScriptsInMarkup(html) == IF html = ScriptMarkup THEN 1 ELSE 0

RECURSIVE ScriptsInElement(_)
RECURSIVE ScriptsInElements(_)
ScriptsInElement(el) == ScriptsInMarkup(el.html) + ScriptsInElements(el.children)
ScriptsInElements(els) ==
    IF els = <<>> THEN 0 ELSE ScriptsInElement(Head(els)) + ScriptsInElements(Tail(els))

\* the scripts of the returned HTML that set window.status to "ready"
ReadyScriptCount(html) == Len(html.scripts) + ScriptsInElements(html.content)

\* C3 as stated: the HTML toPdfHtml returns holds exactly one script that sets
\* window.status to "ready", whether or not mermaid is included, diagrams are
\* present, or the style shell rendered.
C3_ExactlyOneReadyScript ==
    (op = "toPdfHtml" /\ result.status = "returned") => ReadyScriptCount(result.value) = 1


----------------------------------------------------------------------------
(* Claims about the mention plugin, checked under SpecMention              *)

\* the mention nodes of the editor's document, in document order
EditorMentions == EditorMentionsOf(editor.doc)

\* C11: once a transaction has been dispatched (and the plugin's repair pass
\* has run on its result), every mention of the document has a non-empty id
\* and no two mentions share an id.
C11_MentionIdsUnique ==
    op # "none" =>
        /\ \A i \in 1..Len(EditorMentions) :
              EditorMentions[i].attrs.id \notin {Null, Undefined, <<>>}
        /\ \A i, j \in 1..Len(EditorMentions) :
              i # j => EditorMentions[i].attrs.id # EditorMentions[j].attrs.id

\* C11 witness: a mention was pasted with the id of a mention that is already
\* in the document; the earlier one kept m1, the other two have fresh ids.
C11_Witness ==
    /\ op = "insertMention"
    /\ Len(EditorMentions) = 3
    /\ EditorMentions[1].attrs.id = Str("m1")
    /\ EditorMentions[2].attrs.id = Uuid(2)
    /\ EditorMentions[3].attrs.id = Uuid(1)

\* the mention at place i of the nodes has an id that is set
HasId(nodes, i) == NodeId(nodes[i]) \notin {Null, Undefined, <<>>}

\* the mentions of the document the plugin was given have ids that are set
\* and differ from one another
MentionIdsDistinct(nodes) ==
    \A i \in 1..Len(nodes) :
        nodes[i].type = "mention" =>
            /\ HasId(nodes, i)
            /\ \A j \in 1..Len(nodes) :
                  (j # i /\ nodes[j].type = "mention") => NodeId(nodes[j]) # NodeId(nodes[i])

\* C26 as stated: after a dispatch another pass of appendTransaction changes
\* nothing; when the mentions of the document given to the plugin had
\* distinct ids that were set, the plugin changed nothing; and a mention
\* whose id was set and was the id of no other mention has kept it.
C26_FixedPoint ==
    op # "none" =>
        LET given == NodesInOrder(arg.json.content)
            repaired == NodesInOrder(editor.doc.content)
        IN  /\ appendTransaction(editor) = editor
            /\ MentionIdsDistinct(given) => editor.doc = arg.json
            /\ \A i \in 1..Len(given) :
                  (/\ given[i].type = "mention"
                   /\ HasId(given, i)
                   /\ \A j \in 1..Len(given) :
                         (j # i /\ given[j].type = "mention")
                            => NodeId(given[j]) # NodeId(given[i]))
                      => NodeId(repaired[i]) = NodeId(given[i])

\* the id of the mention at place i is set and is the id of no node that
\* comes before it in the document, mention or not
IdNotSeenBefore(nodes, i) ==
    /\ HasId(nodes, i)
    /\ \A j \in 1..(i - 1) : NodeId(nodes[j]) # NodeId(nodes[i])

\* C26 amended: after a dispatch another pass of appendTransaction changes
\* nothing; when every mention of the document given to the plugin had an id
\* that was set and was the id of no node before it, the plugin changed
\* nothing; and every such mention has kept its id.
C26_FixedPointAmongAllNodes ==
    op # "none" =>
        LET given == NodesInOrder(arg.json.content)
            repaired == NodesInOrder(editor.doc.content)
        IN  /\ appendTransaction(editor) = editor
            /\ (\A i \in 1..Len(given) :
                    given[i].type = "mention" => IdNotSeenBefore(given, i))
                  => editor.doc = arg.json
            /\ \A i \in 1..Len(given) :
                  (given[i].type = "mention" /\ IdNotSeenBefore(given, i))
                      => NodeId(repaired[i]) = NodeId(given[i])

\* C26 witness: a mention was pasted after the mention m1 it was copied from;
\* the plugin gave the copy a new id, the first kept m1, and another pass
\* changes nothing.
C26_Witness ==
    /\ op = "insertMention"
    /\ Len(EditorMentionsOf(arg.json)) = 2
    /\ EditorMentionsOf(arg.json)[1].attrs.id = Str("m1")
    /\ EditorMentionsOf(arg.json)[2].attrs.id = Str("m1")
    /\ EditorMentions[1].attrs.id = Str("m1")
    /\ EditorMentions[2].attrs.id = Uuid(1)
    /\ appendTransaction(editor) = editor

----------------------------------------------------------------------------
(* Claims about the Markdown of the custom nodes, checked under SpecMarkdown *)

\* the document that was written and read back holds one block of type t
RoundTripOf(t) ==
    /\ op = "fromMarkdown"
    /\ Len(arg.json.content) = 1
    /\ arg.json.content[1].type = t

SameAttachment(a, b) ==
    /\ b.type = "attachment"
    /\ b.attrs.href = a.attrs.href
    /\ b.attrs.title = a.attrs.title
    /\ b.attrs.size = a.attrs.size

C13_MentionRoundTrip ==
    RoundTripOf("paragraph") =>
        /\ Len(result.value.content) = 1
        /\ Len(result.value.content[1].content) = 2
        /\ LET written == arg.json.content[1].content[2]
               read == result.value.content[1].content[2]
           IN  /\ read.type = "mention"
               /\ read.attrs.id = written.attrs.id
               /\ read.attrs.type = written.attrs.type
               /\ read.attrs.modelId = written.attrs.modelId
               /\ read.attrs.label = written.attrs.label

\* C14 as stated: a document with a pdfEmbed node of attachmentId a reads
\* back, from its Markdown, as a document with a pdfEmbed node of attachmentId a.
C14_PdfEmbedRoundTrip ==
    RoundTripOf("pdfEmbed") =>
        \E i \in 1..Len(result.value.content) :
            /\ result.value.content[i].type = "pdfEmbed"
            /\ result.value.content[i].attrs.attachmentId
                  = arg.json.content[1].attrs.attachmentId

\* C15 as stated: getAttrs returns a non-empty title for every link token;
\* when the link text gives none it is the decoded last path segment of href
\* without query and fragment, and "Attachment" when there is none.
C15_TitleNeverEmpty ==
    op = "getAttrs" => result.value.title # <<>>

----------------------------------------------------------------------------
(* Claims about toHTML and toPdfHtml, checked under SpecPdf                *)

\* the elements of a DOM in document order
RECURSIVE ElementsInOrder(_)
ElementsInOrder(els) ==
    IF els = <<>> THEN <<>>
    ELSE <<Head(els)>> \o ElementsInOrder(Head(els).children) \o ElementsInOrder(Tail(els))

\* what the same call builds when no baseUrl is given
RenderedWithoutBaseUrl ==
    IF op = "toHTML"
    THEN toHTML(arg.json, [opts EXCEPT !.baseUrl = <<>>], opts.shellRenders)
    ELSE toPdfHtml(arg.json, [opts EXCEPT !.baseUrl = <<>>], opts.shellRenders, opts.failAt)

\* C18 as stated: with a baseUrl, the href or src of an element is baseUrl
\* followed by the URL when the URL starts with "/", and is the URL as it was
\* otherwise; without a baseUrl every URL is as it was.
C18_OnlyRootRelativeRewritten ==
    op \in {"toHTML", "toPdfHtml"} =>
        LET before == ElementsInOrder(RenderedWithoutBaseUrl.content)
            after == ElementsInOrder(result.value.content)
        IN  /\ Len(after) = Len(before)
            /\ \A i \in 1..Len(before) :
                  after[i].url = IF opts.baseUrl # <<>> /\ StartsWithSlash(before[i].url)
                                 THEN opts.baseUrl \o before[i].url
                                 ELSE before[i].url

\* the tree has no math, code-block or embed node
NoMathCodeEmbed(tree) ==
    \A i \in 1..Len(AllNodes(tree)) :
        AllNodes(tree)[i].type \notin {"math_inline", "math_block", "code_block", "embed"}

\* C19 as stated: for a tree without math, code-block and embed nodes, when
\* the shell renders and no serializer throws, the content toPdfHtml puts
\* under #content is the content toHTML puts there, one element per top-level
\* block.
C19_SameContentAsToHTML ==
    (/\ op = "toPdfHtml"
     /\ opts.shellRenders
     /\ opts.failAt = 0
     /\ NoMathCodeEmbed(arg.json))
        => /\ result.value.content = toHTML(arg.json, opts, TRUE).content
           /\ Len(result.value.content) = Len(arg.json.content)

\* an element that the toDOM of a math node or of a code block gives
DefaultMathOrCode(el) ==
    el.tag \in {"math_inline", "math-block"} \/ el.class = {"code-block"}

\* C20 as stated: when the shell renders and no renderer throws, the content
\* of toPdfHtml holds no element made by the toDOM of a math node or of a code
\* block, at any depth.
C20_NoDefaultMathOrCode ==
    (op = "toPdfHtml" /\ opts.shellRenders /\ opts.failAt = 0) =>
        \A i \in 1..Len(ElementsInOrder(result.value.content)) :
            ~DefaultMathOrCode(ElementsInOrder(result.value.content)[i])

\* the content toPdfHtml builds, with the same options, for the top-level
\* children from..to of the document when no renderer throws
ContentOfChildren(from, to) ==
    toPdfHtml(Doc(SubSeq(arg.json.content, from, to)), opts, TRUE, 0).content

\* els is what stands for the node after its renderer threw: an element of
\* class math-error with the source, a code block with the raw code, the
\* node's text as a text node (nothing when it has no text)
IsFallbackOf(els, node) ==
    CASE node.type \in {"math_inline", "math_block"} ->
            /\ Len(els) = 1
            /\ "math-error" \in els[1].class
            /\ els[1].html = escapeHtml(textContent(node))
      [] node.type = "code_block" ->
            /\ Len(els) = 1
            /\ \/ /\ "code-block" \in els[1].class
                  /\ els[1].children[1].children[1].html = textContent(node)
               \/ /\ "mermaid" \in els[1].class
                  /\ els[1].html = textContent(node)
      [] OTHER ->
            \/ textContent(node) = "" /\ els = <<>>
            \/ textContent(node) # "" /\ els = <<TextEl(textContent(node))>>

C28_CodeTextEscaped ==
    op = "toPdfHtml" => ScriptsInElements(result.value.content) = 0

----------------------------------------------------------------------------
(* Claims about ExportPDFTask and generatePdfForDocument, checked under     *)
(* SpecExport                                                               *)

\* the run has ended and the update to Error, if one was started, has settled
RunAndUpdateOver == task.pc = "done" /\ task.update # "pending"

\* C22: once the file operation was moved to Uploading, a run of perform
\* that has ended, with its follow-up state update settled, has left the
\* operation in state Complete or Error and never in Uploading; and Complete
\* is only set after the zip was stored.
C22_NeverLeftUploading ==
    (task.kind = "export" /\ task.wasUploading) =>
        /\ RunAndUpdateOver => task.state \in {"complete", "error"}
        /\ task.state = "complete" => task.stored

\* the zip entries that are PDFs of documents
DocEntries(zip) == {k \in DOMAIN zip : zip[k].doc # 0}

\* C25: no two documents of one export are appended to the zip under the
\* same entry name, whether the name comes from the path map or from the
\* title-based fallback.
C25_DistinctEntryNames ==
    task.kind = "export" =>
        \A j, k \in DocEntries(task.zip) :
            j # k => task.zip[j].name # task.zip[k].name

----------------------------------------------------------------------------
(* Claims about CommentUpdatedNotificationsTask, checked under SpecNotify   *)

\* C24: a run of perform creates at most one notification per recipient,
\* also when several new mentions with distinct ids point at the same user,
\* and none for a mention whose id is not in newMentionIds or whose
\* recipient is the actor.
C24_AtMostOnePerRecipient ==
    task.kind = "notify" =>
        /\ \A j, k \in DOMAIN task.notifications :
               j # k => task.notifications[j].userId # task.notifications[k].userId
        /\ \A k \in DOMAIN task.notifications :
               /\ task.notifications[k].mentionId \in task.event.newMentionIds
               /\ task.notifications[k].userId # task.notifications[k].actorId

----------------------------------------------------------------------------
(* Claims about PdfViewer, checked under SpecViewer                         *)

\* C30: the component leaves its initial loading state: once the PDF has
\* loaded it is in the loaded state (isLoading false, numPages set, pages
\* shown), once loading has failed it is in the error state (isLoading
\* false, error set), and the loading overlay is not shown any more.
C30_LeavesLoadingState ==
    viewer.mounted =>
        /\ viewer.pdf = "ready" =>
               /\ ~viewer.isLoading
               /\ viewer.numPages = viewer.pages
               /\ PagesShown(viewer) = viewer.pages
        /\ viewer.pdf = "broken" =>
               /\ ~viewer.isLoading
               /\ ErrorOverlayShown(viewer)
        /\ viewer.pdf # "pending" => ~LoadingOverlayShown(viewer)

=============================================================================
